---- MODULE Spec2Model ----
(***************************************************************************)
(* Session-backed JWT authentication of the GAuth web backend:             *)
(* handlers/auth.go (Login, RefreshToken, Logout, Me, ChangePassword),     *)
(* middleware/middleware.go (AuthMiddleware, RequireRole), the user CRUD   *)
(* handlers (CreateUser, UpdateUser, DeleteUser) and the models.           *)
(*                                                                         *)
(* Each HTTP request is one action: the middleware chain of its route      *)
(* followed by the handler.  The store is the users and sessions tables.   *)
(* Time is counted in days, the unit of the two configured durations.      *)
(***************************************************************************)
EXTENDS Integers, Sequences, FiniteSets, TLC

\* ------------------------------------------------------------------ bounds
MaxUsers == 2
MaxSessions == 2
MaxTime == 8
MaxRoles == 2
MaxRows == 25
MaxAudit == 3
MaxInflight == 2
MaxPerms == 3
MaxClock == 4
MaxAdmitted == 3
\* the scale of the rate limit: RateLimitMax requests (100 in the source) in
\* Minute ticks of the clock (60 seconds in the source)
RateLimitMax == 2
Minute == 2

\* ------------------------------------------------- configuration constants
\* config.Load: JWT.Expiry = 24h, JWT.RefreshExp = 7*24h (in days)
JWTExpiry == 1
RefreshExp == 7
JWTSecret == "your_jwt_secret_change_in_production"

VARIABLES
    users,      \* users table: id -> row (soft-deleted rows stay, deleted = TRUE)
    sessions,   \* sessions table: token -> row
    now,        \* time.Now()
    loggedOut,  \* history: session tokens for which Logout answered 200
    last,       \* the last request and its response
    auditLogs,  \* audit_logs table: the rows persisted, in order
    auditWrites, \* the audit goroutines launched and not yet finished
    inflight,   \* the user requests between their conflict check and their write
    clients,    \* the map of RateLimit: client IP -> times of its requests
    admitted,   \* history: client IP -> times of the requests RateLimit let through
    limiting,   \* the requests inside RateLimit, between two of its statements
    raced,      \* history: client IPs that had two requests inside RateLimit at once
    authProvider \* the frontend: AuthProvider's state, localStorage, where its async functions stand

auditVars == <<auditLogs, auditWrites>>
limitVars == <<clients, admitted, limiting, raced>>
vars == <<users, sessions, now, loggedOut, last, auditLogs, auditWrites, inflight,
          clients, admitted, limiting, raced, authProvider>>

\* ------------------------------------------------------------ value spaces
UserIds == 1..MaxUsers
NilUUID == 0
SessionTokens == {"s" \o ToString(i) : i \in 1..MaxSessions}
Usernames == {"admin", "admin@gauth.local", "bob"}
Emails == {"admin@gauth.local", "bob@gauth.local"}
Idents == Usernames \cup Emails
Passwords == {"password", "secret1"}
Absent == "<absent>"
NoCtx == -1
EmptyMap == [x \in {} |-> x]

\* uuid.UUID.String()
UUIDString(id) == "uuid-" \o ToString(id)

\* bcrypt.GenerateFromPassword / bcrypt.CompareHashAndPassword
GenerateFromPassword(pw) == "$2a$" \o pw
CompareHashAndPassword(hash, pw) == hash = GenerateFromPassword(pw)

\* the zero values of models.User and models.Session
ZeroUser == [id |-> NilUUID, username |-> "", email |-> "", password |-> "",
             isActive |-> FALSE, deleted |-> FALSE, roles |-> {}]
ZeroSession == [userID |-> NilUUID, token |-> "", expiresAt |-> 0,
                isActive |-> FALSE, User |-> ZeroUser]

\* gorm's default scope on a model with DeletedAt: deleted_at IS NULL
LiveUsers == {id \in DOMAIN users : ~users[id].deleted}

Min(S) == CHOOSE m \in S : \A n \in S : m <= n

\* ------------------------------------------------------------------ tokens
HMACFamily == {"HS256", "HS384", "HS512"}

\* jwt.MapClaims with the claims the handlers write; a key left out is a
\* claim the token does not carry
MapClaims(uid, st, typ, exp) ==
    (IF uid = Absent THEN EmptyMap ELSE ("user_id" :> uid)) @@
    (IF st = Absent THEN EmptyMap ELSE ("session_token" :> st)) @@
    ("type" :> typ) @@ ("exp" :> exp)

\* jwt.NewWithClaims(method, claims) + SignedString(key)
SignedString(alg, key, claims) == [alg |-> alg, sig |-> key, claims |-> claims]

generateAccessToken(userID, sessionToken) ==
    SignedString("HS256", JWTSecret,
                 MapClaims(UUIDString(userID), sessionToken, "access", now + JWTExpiry))

generateRefreshToken(userID, sessionToken) ==
    SignedString("HS256", JWTSecret,
                 MapClaims(UUIDString(userID), sessionToken, "refresh", now + RefreshExp))

\* the token strings a client can present now: signed by the server's method
\* with the secret or with another key, or unsigned (alg "none", no signature);
\* any claims (a user_id of a row of the users table or of none, uuid.Nil);
\* exp passed (now) or not (now + 1)
Signers == {<<"HS256", JWTSecret>>, <<"HS256", "other-key">>, <<"none", "">>}
UidClaims == {Absent} \cup {UUIDString(i) : i \in DOMAIN users \cup {NilUUID}}
StClaims == {Absent} \cup SessionTokens
Tokens ==
    {SignedString(m[1], m[2], MapClaims(u, s, t, e)) :
        m \in Signers, u \in UidClaims,
        s \in StClaims, t \in {"access", "refresh"}, e \in {now, now + 1}}
\* a string that is not three base64 segments: jwt.Parse fails on it
Malformed == [alg |-> "<malformed>", sig |-> "", claims |-> EmptyMap]

\* the empty token string of a response without tokens
NoToken == [alg |-> "", sig |-> "", claims |-> EmptyMap]

\* the keyfunc both callers pass to jwt.Parse
Keyfunc(token) == token.alg \in HMACFamily

\* SigningMethod.Verify with a []byte key: only the HMAC methods accept it
Verify(token, key) == token.alg \in HMACFamily /\ token.sig = key

\* variant: the token is decoded without the keyfunc and without verifying
\* the signature (jwt.Parser.ParseUnverified)
jwtParse_Unverified(tokenString) ==
    /\ tokenString # Malformed
    /\ tokenString # NoToken
    /\ ("exp" \in DOMAIN tokenString.claims => now < tokenString.claims.exp)

\* jwt.Parse(tokenString, keyfunc): err == nil && token.Valid
\* (v5 validates exp when present: valid iff now.Before(exp))
jwtParse(tokenString) ==
    /\ tokenString # Malformed
    /\ tokenString # NoToken
    /\ Keyfunc(tokenString)
    /\ Verify(tokenString, JWTSecret)
    /\ ("exp" \in DOMAIN tokenString.claims => now < tokenString.claims.exp)

\* claims[k].(string)
ClaimString(claims, k) == IF k \in DOMAIN claims THEN claims[k] ELSE ""
ClaimOk(claims, k) == k \in DOMAIN claims

\* Session.IsExpired
IsExpired(s) == now > s.expiresAt

\* variant: the query leaves out "AND is_active = true"
SessionQuery_AnyActivity(sessionToken, userID) ==
    {t \in DOMAIN sessions :
        /\ sessions[t].token = sessionToken
        /\ UUIDString(sessions[t].userID) = userID}

\* db.Where("token = ? AND user_id = ? AND is_active = true").Preload("User.Roles").First
\* the set of matching rows (token is unique: at most one)
SessionQuery(sessionToken, userID) ==
    {t \in DOMAIN sessions :
        /\ sessions[t].token = sessionToken
        /\ UUIDString(sessions[t].userID) = userID
        /\ sessions[t].isActive}

\* Preload("User.Roles"): the owner row unless soft-deleted, else the zero User
PreloadUser(s) ==
    [userID |-> s.userID, token |-> s.token, expiresAt |-> s.expiresAt,
     isActive |-> s.isActive,
     User |-> IF s.userID \in LiveUsers THEN users[s.userID] ELSE ZeroUser]

\* ---------------------------------------------------------- AuthMiddleware
\* the Authorization header is a sequence: <<>> is the empty string,
\* <<"Bearer ", t>> carries token t, anything else lacks the prefix
Headers ==
    {<<>>, <<"Basic ", Malformed>>, <<"Bearer ", Malformed>>} \cup
    {<<"Bearer ", t>> : t \in Tokens}

\* strings.TrimPrefix(authHeader, "Bearer ")
TrimPrefix(authHeader) ==
    IF Len(authHeader) > 0 /\ Head(authHeader) = "Bearer "
    THEN Tail(authHeader) ELSE authHeader

\* variant: every abort carries the same message
Abort_Uniform(status, error) ==
    [pass |-> FALSE, status |-> status, error |-> "Invalid token",
     user |-> ZeroUser, session |-> ZeroSession]

\* c.JSON(status, gin.H{"error": error}); c.Abort()
Abort(status, error) ==
    [pass |-> FALSE, status |-> status, error |-> error,
     user |-> ZeroUser, session |-> ZeroSession]

AuthMiddleware(authHeader) ==
    IF authHeader = <<>> THEN Abort(401, "Authorization header is required")
    ELSE IF TrimPrefix(authHeader) = authHeader THEN Abort(401, "Bearer token is required")
    ELSE LET tokenString == Head(TrimPrefix(authHeader)) IN
    IF ~jwtParse(tokenString) THEN Abort(401, "Invalid token")
    ELSE LET claims == tokenString.claims IN
    IF ~ClaimOk(claims, "user_id") THEN Abort(401, "Invalid user ID in token")
    ELSE IF ~ClaimOk(claims, "session_token") THEN Abort(401, "Invalid session token in claims")
    ELSE LET found == SessionQuery(claims.session_token, claims.user_id) IN
    IF found = {} THEN Abort(401, "Invalid session")
    ELSE LET session == PreloadUser(sessions[CHOOSE t \in found : TRUE]) IN
    IF IsExpired(session) THEN Abort(401, "Session expired")
    ELSE [pass |-> TRUE, status |-> 200, error |-> "",
          user |-> session.User, session |-> session]

\* ------------------------------------------------------------------- Login
\* db.Where("username = ? OR email = ?").First(&user): ORDER BY id LIMIT 1
LoginQuery(username) ==
    {id \in LiveUsers : users[id].username = username \/ users[id].email = username}

LoginResponse(status, error, access, refresh) ==
    [status |-> status, error |-> error, access_token |-> access, refresh_token |-> refresh]

\* variant: an unknown username is answered with its own message
LoginResp_UserNotFound(username, password, token) ==
    LET found == LoginQuery(username) IN
    IF found = {}
    THEN [resp |-> LoginResponse(401, "User not found", NoToken, NoToken),
          created |-> FALSE, user |-> NoCtx]
    ELSE LET user == users[Min(found)] IN
    IF ~user.isActive
    THEN [resp |-> LoginResponse(401, "Account is disabled", NoToken, NoToken),
          created |-> FALSE, user |-> user.id]
    ELSE IF ~CompareHashAndPassword(user.password, password)
    THEN [resp |-> LoginResponse(401, "Invalid credentials", NoToken, NoToken),
          created |-> FALSE, user |-> user.id]
    ELSE IF token \in DOMAIN sessions
    THEN [resp |-> LoginResponse(500, "Failed to create session", NoToken, NoToken),
          created |-> FALSE, user |-> user.id]
    ELSE [resp |-> LoginResponse(200, "", generateAccessToken(user.id, token),
                                 generateRefreshToken(user.id, token)),
          created |-> TRUE, user |-> user.id,
          session |-> [userID |-> user.id, token |-> token,
                       expiresAt |-> now + RefreshExp, isActive |-> TRUE]]

\* variant: the password is verified before the active flag is looked at
LoginResp_PasswordFirst(username, password, token) ==
    LET found == LoginQuery(username) IN
    IF found = {}
    THEN [resp |-> LoginResponse(401, "Invalid credentials", NoToken, NoToken),
          created |-> FALSE, user |-> NoCtx]
    ELSE LET user == users[Min(found)] IN
    IF ~CompareHashAndPassword(user.password, password)
    THEN [resp |-> LoginResponse(401, "Invalid credentials", NoToken, NoToken),
          created |-> FALSE, user |-> user.id]
    ELSE IF ~user.isActive
    THEN [resp |-> LoginResponse(401, "Account is disabled", NoToken, NoToken),
          created |-> FALSE, user |-> user.id]
    ELSE IF token \in DOMAIN sessions
    THEN [resp |-> LoginResponse(500, "Failed to create session", NoToken, NoToken),
          created |-> FALSE, user |-> user.id]
    ELSE [resp |-> LoginResponse(200, "", generateAccessToken(user.id, token),
                                 generateRefreshToken(user.id, token)),
          created |-> TRUE, user |-> user.id,
          session |-> [userID |-> user.id, token |-> token,
                       expiresAt |-> now + RefreshExp, isActive |-> TRUE]]

\* variant: the sessions table has no unique index on the token, and a
\* login whose token is already held rewrites that row
LoginResp_Upsert(username, password, token) ==
    LET found == LoginQuery(username) IN
    IF found = {}
    THEN [resp |-> LoginResponse(401, "Invalid credentials", NoToken, NoToken),
          created |-> FALSE, user |-> NoCtx]
    ELSE LET user == users[Min(found)] IN
    IF ~user.isActive
    THEN [resp |-> LoginResponse(401, "Account is disabled", NoToken, NoToken),
          created |-> FALSE, user |-> user.id]
    ELSE IF ~CompareHashAndPassword(user.password, password)
    THEN [resp |-> LoginResponse(401, "Invalid credentials", NoToken, NoToken),
          created |-> FALSE, user |-> user.id]
    ELSE [resp |-> LoginResponse(200, "", generateAccessToken(user.id, token),
                                 generateRefreshToken(user.id, token)),
          created |-> TRUE, user |-> user.id,
          session |-> [userID |-> user.id, token |-> token,
                       expiresAt |-> now + RefreshExp, isActive |-> TRUE]]

\* the response of Login and the session row it creates; token is the
\* uuid.New().String() of the new session, and db.Create fails on a token
\* the unique index already holds.  (The other 500 answers to a failing
\* store call are left out, and so is the LastLoginAt column that
\* db.Save(&user) rewrites.)
LoginResp(username, password, token) ==
    LET found == LoginQuery(username) IN
    IF found = {}
    THEN [resp |-> LoginResponse(401, "Invalid credentials", NoToken, NoToken),
          created |-> FALSE, user |-> NoCtx]
    ELSE LET user == users[Min(found)] IN
    IF ~user.isActive
    THEN [resp |-> LoginResponse(401, "Account is disabled", NoToken, NoToken),
          created |-> FALSE, user |-> user.id]
    ELSE IF ~CompareHashAndPassword(user.password, password)
    THEN [resp |-> LoginResponse(401, "Invalid credentials", NoToken, NoToken),
          created |-> FALSE, user |-> user.id]
    ELSE IF token \in DOMAIN sessions
    THEN [resp |-> LoginResponse(500, "Failed to create session", NoToken, NoToken),
          created |-> FALSE, user |-> user.id]
    ELSE [resp |-> LoginResponse(200, "", generateAccessToken(user.id, token),
                                 generateRefreshToken(user.id, token)),
          created |-> TRUE, user |-> user.id,
          session |-> [userID |-> user.id, token |-> token,
                       expiresAt |-> now + RefreshExp, isActive |-> TRUE]]

\* what `last` keeps of a request: the operation, the algorithm and the
\* session_token claim of the presented token, the response status and error,
\* and the id of the user the request resolved (NoCtx: none)
Record(op, tokenString, status, error, user) ==
    [op |-> op, status |-> status, error |-> error,
     alg |-> tokenString.alg,
     st |-> IF "session_token" \in DOMAIN tokenString.claims
            THEN tokenString.claims.session_token ELSE Absent,
     user |-> user]

\* uuid.New().String(): a token no session row holds; tokens are opaque, so
\* the next unused name stands for it
NewToken == "s" \o ToString(Cardinality(DOMAIN sessions) + 1)

\* Login with the token of the new session drawn from tokens
LoginWith(tokens) ==
    \E username \in Idents, password \in Passwords, token \in tokens :
        LET r == LoginResp(username, password, token) IN
        /\ r.created => token \in SessionTokens
        /\ sessions' = IF r.created
                       THEN [t \in DOMAIN sessions \cup {token} |->
                                IF t = token THEN r.session ELSE sessions[t]]
                       ELSE sessions
        /\ last' = Record("Login", NoToken, r.resp.status, r.resp.error, r.user)
        /\ UNCHANGED <<authProvider, limitVars, auditVars, inflight, users, now, loggedOut>>

Login == LoginWith({NewToken})

\* Login where uuid.New() may return a token some session already holds
LoginAnyToken == LoginWith(SessionTokens)

\* ------------------------------------------------------------ RefreshToken
\* variant: a successful refresh renews the session (sliding expiry)
RefreshTokenResp_Sliding(refreshToken) ==
    IF ~jwtParse(refreshToken)
    THEN [resp |-> LoginResponse(401, "Invalid refresh token", NoToken, NoToken),
          sessions |-> sessions, user |-> NoCtx]
    ELSE LET claims == refreshToken.claims
             userID == ClaimString(claims, "user_id")
             sessionToken == ClaimString(claims, "session_token")
             found == SessionQuery(sessionToken, userID) IN
    IF found = {}
    THEN [resp |-> LoginResponse(401, "Invalid session", NoToken, NoToken),
          sessions |-> sessions, user |-> NoCtx]
    ELSE LET session == PreloadUser(sessions[CHOOSE t \in found : TRUE]) IN
    IF IsExpired(session)
    THEN [resp |-> LoginResponse(401, "Session expired", NoToken, NoToken),
          sessions |-> sessions, user |-> NoCtx]
    ELSE [resp |-> LoginResponse(200, "", generateAccessToken(session.User.id, session.token),
                                 refreshToken),
          sessions |-> [sessions EXCEPT ![session.token].expiresAt = now + RefreshExp],
          user |-> session.User.id]

\* variant: the session's expiry is not looked at
RefreshTokenResp_NoExpiry(refreshToken) ==
    IF ~jwtParse(refreshToken)
    THEN [resp |-> LoginResponse(401, "Invalid refresh token", NoToken, NoToken),
          sessions |-> sessions, user |-> NoCtx]
    ELSE LET claims == refreshToken.claims
             userID == ClaimString(claims, "user_id")
             sessionToken == ClaimString(claims, "session_token")
             found == SessionQuery(sessionToken, userID) IN
    IF found = {}
    THEN [resp |-> LoginResponse(401, "Invalid session", NoToken, NoToken),
          sessions |-> sessions, user |-> NoCtx]
    ELSE LET session == PreloadUser(sessions[CHOOSE t \in found : TRUE]) IN
         [resp |-> LoginResponse(200, "", generateAccessToken(session.User.id, session.token),
                                 refreshToken),
          sessions |-> sessions, user |-> session.User.id]

\* the response of RefreshToken and the sessions table it leaves
RefreshTokenResp(refreshToken) ==
    IF ~jwtParse(refreshToken)
    THEN [resp |-> LoginResponse(401, "Invalid refresh token", NoToken, NoToken),
          sessions |-> sessions, user |-> NoCtx]
    ELSE LET claims == refreshToken.claims
             userID == ClaimString(claims, "user_id")
             sessionToken == ClaimString(claims, "session_token")
             found == SessionQuery(sessionToken, userID) IN
    IF found = {}
    THEN [resp |-> LoginResponse(401, "Invalid session", NoToken, NoToken),
          sessions |-> sessions, user |-> NoCtx]
    ELSE LET session == PreloadUser(sessions[CHOOSE t \in found : TRUE]) IN
    IF IsExpired(session)
    THEN [resp |-> LoginResponse(401, "Session expired", NoToken, NoToken),
          sessions |-> sessions, user |-> NoCtx]
    ELSE [resp |-> LoginResponse(200, "", generateAccessToken(session.User.id, session.token),
                                 refreshToken),
          sessions |-> sessions, user |-> session.User.id]

\* the sessions table after a refresh with this token and what `last` keeps
\* of the request
RefreshTokenRecord(refreshToken) ==
    LET r == RefreshTokenResp(refreshToken) IN
    [sessions |-> r.sessions,
     last |-> Record("RefreshToken", refreshToken, r.resp.status, r.resp.error, r.user)]

\* POST /api/auth/refresh with any token string: the requests that differ in
\* nothing `last` keeps make one step
RefreshToken ==
    \E r \in {RefreshTokenRecord(refreshToken) : refreshToken \in Tokens \cup {Malformed}} :
        /\ sessions' = r.sessions
        /\ last' = r.last
        /\ UNCHANGED <<authProvider, limitVars, auditVars, inflight, users, now, loggedOut>>

\* -------------------------------------------------------- protected routes
\* the headers of the requests to the state-changing protected routes: none,
\* or the access token Login issued for a session (its exp not yet passed)
ClientHeaders ==
    {<<>>} \cup
    {<<"Bearer ", SignedString("HS256", JWTSecret,
                               MapClaims(UUIDString(sessions[t].userID), t, "access", now + 1))>> :
        t \in DOMAIN sessions}

HeaderToken(authHeader) ==
    IF Len(authHeader) = 2 THEN authHeader[2] ELSE Malformed

\* variant: any authenticated user has the role
RequireRole_Authenticated(user, requiredRole) == user.id # NilUUID

\* RequireRole(requiredRole) on the user AuthMiddleware put in the context:
\* the loop over u.Roles
RequireRole(user, requiredRole) == requiredRole \in user.roles

Rejected(op, authHeader, mw) ==
    /\ last' = Record(op, HeaderToken(authHeader), mw.status, mw.error, NoCtx)
    /\ UNCHANGED <<authProvider, limitVars, auditVars, inflight, users, sessions, now, loggedOut>>

Forbidden(op, authHeader, mw) ==
    /\ last' = Record(op, HeaderToken(authHeader), 403, "Role 'admin' is required", mw.user.id)
    /\ UNCHANGED <<authProvider, limitVars, auditVars, inflight, users, sessions, now, loggedOut>>

\* the json tags of models.User ("-": the field is never written)
UserTags ==
    [id |-> "id", username |-> "username", email |-> "email", password |-> "-",
     isActive |-> "is_active", deleted |-> "-", roles |-> "roles"]

\* json.Marshal of a models.User: one key for each field whose tag is not "-"
jsonMarshalUser(u) ==
    LET keys == {UserTags[f] : f \in DOMAIN u} \ {"-"} IN
    [k \in keys |-> u[CHOOSE f \in DOMAIN u : UserTags[f] = k]]

\* variant: the row is written out as it was loaded, column by column
MeResp_Raw(u) == u

\* u.Password = ""; c.JSON(http.StatusOK, u)
MeResp(u) == jsonMarshalUser([u EXCEPT !.password = ""])

\* what `last` keeps of a request to Me with this header
MeRecord(authHeader) ==
    LET mw == AuthMiddleware(authHeader) IN
    IF ~mw.pass
    THEN Record("Me", HeaderToken(authHeader), mw.status, mw.error, NoCtx)
    ELSE Record("Me", HeaderToken(authHeader), 200, "", mw.user.id)
            @@ [body |-> MeResp(mw.user)]

\* GET /api/auth/me with any header: the requests that differ in nothing
\* `last` keeps make one step
Me ==
    \E r \in {MeRecord(authHeader) : authHeader \in Headers} :
        /\ last' = r
        /\ UNCHANGED <<authProvider, limitVars, auditVars, inflight, users, sessions, now, loggedOut>>

\* variant: the new password is stored as it was sent
ChangePasswordResp_Plain(u, currentPassword, newPassword) ==
    IF ~CompareHashAndPassword(u.password, currentPassword)
    THEN [status |-> 401, error |-> "Current password is incorrect", users |-> users]
    ELSE [status |-> 200, error |-> "Password changed successfully",
          users |-> [users EXCEPT ![u.id] = [u EXCEPT !.password = newPassword]]]

\* ChangePassword on the user AuthMiddleware put in the context; db.Save(u)
\* writes the row it loaded with the new hash
ChangePasswordResp(u, currentPassword, newPassword) ==
    IF ~CompareHashAndPassword(u.password, currentPassword)
    THEN [status |-> 401, error |-> "Current password is incorrect", users |-> users]
    ELSE [status |-> 200, error |-> "Password changed successfully",
          users |-> [users EXCEPT ![u.id] =
                        [u EXCEPT !.password = GenerateFromPassword(newPassword)]]]

ChangePassword ==
    \E authHeader \in ClientHeaders :
        LET mw == AuthMiddleware(authHeader) IN
        IF ~mw.pass THEN Rejected("ChangePassword", authHeader, mw)
        ELSE \E currentPassword, newPassword \in Passwords :
             LET r == ChangePasswordResp(mw.user, currentPassword, newPassword) IN
             /\ r.status = 200 => mw.user.id \in DOMAIN users
             /\ users' = r.users
             /\ last' = Record("ChangePassword", HeaderToken(authHeader),
                               r.status, r.error, mw.user.id)
             /\ UNCHANGED <<authProvider, limitVars, auditVars, inflight, sessions, now, loggedOut>>

\* variant: logging out ends every session of the user
Logout_Everywhere ==
    \E authHeader \in ClientHeaders :
        LET mw == AuthMiddleware(authHeader) IN
        IF ~mw.pass THEN Rejected("Logout", authHeader, mw)
        ELSE LET s == mw.session IN
             /\ sessions' = [t \in DOMAIN sessions |->
                                IF sessions[t].userID = s.userID
                                THEN [sessions[t] EXCEPT !.isActive = FALSE]
                                ELSE sessions[t]]
             /\ loggedOut' = loggedOut \cup {s.token}
             /\ last' = Record("Logout", HeaderToken(authHeader), 200,
                               "Logged out successfully", mw.user.id)
             /\ UNCHANGED <<authProvider, limitVars, auditVars, inflight, users, now>>

\* s.IsActive = false; db.Save(s) writes every column of the loaded row
Logout ==
    \E authHeader \in ClientHeaders :
        LET mw == AuthMiddleware(authHeader) IN
        IF ~mw.pass THEN Rejected("Logout", authHeader, mw)
        ELSE LET s == mw.session IN
             /\ sessions' = [sessions EXCEPT ![s.token] =
                                [userID |-> s.userID, token |-> s.token,
                                 expiresAt |-> s.expiresAt, isActive |-> FALSE]]
             /\ loggedOut' = loggedOut \cup {s.token}
             /\ last' = Record("Logout", HeaderToken(authHeader), 200,
                               "Logged out successfully", mw.user.id)
             /\ UNCHANGED <<authProvider, limitVars, auditVars, inflight, users, now>>

\* --------------------------------------------------------------- user CRUD
RoleNames == {"admin", "user"}
\* the request bodies of the user routes (Absent is a field left out)
RoleSets == {{}}
NewPasswords == {"secret1"}
UpdateUsernames == {Absent, "bob"}
UpdateEmails == {Absent, "bob@gauth.local"}
UpdateRoles == {{Absent}}

\* the uniqueIndex on users.username and users.email covers soft-deleted rows
UniqueViolation(id, username, email) ==
    \E o \in DOMAIN users \ {id} : users[o].username = username \/ users[o].email = email

\* the check before the insert: a live row with the username or the email
CreateUserConflict(username, email) ==
    \E o \in LiveUsers : users[o].username = username \/ users[o].email = email

\* db.Create(user) and the answer after it; id is the uuid.New() of BeforeCreate
CreateUserInsertResp(username, email, password, roleIDs, id) ==
    IF UniqueViolation(id, username, email)
    THEN [status |-> 500, error |-> "Failed to create user", users |-> users]
    ELSE [status |-> 201, error |-> "",
          users |-> users @@ (id :> [id |-> id, username |-> username, email |-> email,
                                     password |-> GenerateFromPassword(password),
                                     isActive |-> TRUE, deleted |-> FALSE,
                                     roles |-> roleIDs \cap RoleNames])]

\* status and users table after CreateUser
CreateUserResp(username, email, password, roleIDs, id) ==
    IF CreateUserConflict(username, email)
    THEN [status |-> 409, error |-> "User with this username or email already exists",
          users |-> users]
    ELSE CreateUserInsertResp(username, email, password, roleIDs, id)

\* uuid.New() in BeforeCreate: an id no row holds; ids are opaque, so the
\* first unused one stands for it.  When every id of the bounded space is
\* taken, uuid.Nil stands for it and no row is inserted
FreshIds ==
    IF UserIds \subseteq DOMAIN users THEN {NilUUID} ELSE {Min(UserIds \ DOMAIN users)}

CreateUser ==
    \E authHeader \in ClientHeaders :
        LET mw == AuthMiddleware(authHeader) IN
        IF ~mw.pass THEN Rejected("CreateUser", authHeader, mw)
        ELSE IF ~RequireRole(mw.user, "admin") THEN Forbidden("CreateUser", authHeader, mw)
        ELSE \E username \in Usernames, email \in Emails, password \in NewPasswords,
                roleIDs \in RoleSets, id \in FreshIds :
             LET r == CreateUserResp(username, email, password, roleIDs, id) IN
             /\ r.status = 201 => id \in UserIds
             /\ users' = r.users
             /\ last' = Record("CreateUser", HeaderToken(authHeader), r.status, r.error, mw.user.id)
             /\ UNCHANGED <<authProvider, limitVars, auditVars, inflight, sessions, now, loggedOut>>

\* the load of the row and the conflict checks of UpdateUser: the answer
\* that ends the request there, or status 0 to go on
UpdateUserCheck(userID, username, email) ==
    IF userID \notin LiveUsers
    THEN [status |-> 404, error |-> "User not found"]
    ELSE LET user == users[userID] IN
    IF /\ username # Absent /\ username # user.username
       /\ \E o \in LiveUsers \ {userID} : users[o].username = username
    THEN [status |-> 409, error |-> "Username already exists"]
    ELSE IF /\ email # Absent /\ email # user.email
            /\ \E o \in LiveUsers \ {userID} : users[o].email = email
    THEN [status |-> 409, error |-> "Email already exists"]
    ELSE [status |-> 0, error |-> ""]

\* the loaded row with the fields of the request written into it
UpdateUserFields(user, username, email, isActive) ==
    [user EXCEPT
        !.username = IF username # Absent THEN username ELSE @,
        !.email = IF email # Absent THEN email ELSE @,
        !.isActive = IF isActive # Absent THEN isActive = "true" ELSE @]

\* db.Save(&user), which writes every column of the row held in memory,
\* the replacement of the roles, and the answer
UpdateUserSaveResp(userID, saved, roleIDs) ==
    IF UniqueViolation(userID, saved.username, saved.email)
    THEN [status |-> 500, error |-> "Failed to update user", users |-> users]
    ELSE [status |-> 200, error |-> "",
          users |-> [users EXCEPT ![userID] =
                        [saved EXCEPT !.roles = IF roleIDs # {Absent}
                                                THEN roleIDs \cap RoleNames ELSE @]]]

\* status and users table after UpdateUser; Absent is a nil request field
UpdateUserResp(userID, username, email, isActive, roleIDs) ==
    LET check == UpdateUserCheck(userID, username, email) IN
    IF check.status # 0
    THEN [status |-> check.status, error |-> check.error, users |-> users]
    ELSE UpdateUserSaveResp(userID,
                            UpdateUserFields(users[userID], username, email, isActive),
                            roleIDs)

\* the values of a request field for the row userID.  An id without a live
\* row is answered 404 whatever the body holds, and a field that repeats the
\* column of the row is handled as a field left out, so Absent stands for
\* these bodies
FieldValues(userID, values, column) ==
    IF userID \in LiveUsers THEN {v \in values : v # column[userID]} ELSE {Absent}

\* PUT /api/users/:id
UpdateUser ==
    \E authHeader \in ClientHeaders :
        LET mw == AuthMiddleware(authHeader) IN
        IF ~mw.pass THEN Rejected("UpdateUser", authHeader, mw)
        ELSE IF ~RequireRole(mw.user, "admin") THEN Forbidden("UpdateUser", authHeader, mw)
        ELSE \E userID \in UserIds :
             \E username \in FieldValues(userID, UpdateUsernames,
                                         [i \in DOMAIN users |-> users[i].username]),
                email \in FieldValues(userID, UpdateEmails,
                                      [i \in DOMAIN users |-> users[i].email]),
                isActive \in FieldValues(userID, {Absent, "true", "false"},
                                         [i \in DOMAIN users |->
                                             IF users[i].isActive THEN "true" ELSE "false"]),
                roleIDs \in UpdateRoles :
             LET r == UpdateUserResp(userID, username, email, isActive, roleIDs) IN
             /\ users' = r.users
             /\ last' = Record("UpdateUser", HeaderToken(authHeader), r.status, r.error, mw.user.id)
             /\ UNCHANGED <<authProvider, limitVars, auditVars, inflight, sessions, now, loggedOut>>

\* db.Delete(&user): soft delete
DeleteUserResp(userID) ==
    IF userID \notin LiveUsers
    THEN [status |-> 404, error |-> "User not found", users |-> users]
    ELSE [status |-> 200, error |-> "",
          users |-> [users EXCEPT ![userID].deleted = TRUE]]

DeleteUser ==
    \E authHeader \in ClientHeaders :
        LET mw == AuthMiddleware(authHeader) IN
        IF ~mw.pass THEN Rejected("DeleteUser", authHeader, mw)
        ELSE IF ~RequireRole(mw.user, "admin") THEN Forbidden("DeleteUser", authHeader, mw)
        ELSE \E userID \in UserIds :
             LET r == DeleteUserResp(userID) IN
             /\ users' = r.users
             /\ last' = Record("DeleteUser", HeaderToken(authHeader), r.status, r.error, mw.user.id)
             /\ UNCHANGED <<authProvider, limitVars, auditVars, inflight, sessions, now, loggedOut>>

\* ------------------------------------------- user requests, store call by store call
Answered(op, authHeader, status, error, user) ==
    /\ last' = Record(op, HeaderToken(authHeader), status, error, user)
    /\ UNCHANGED <<authProvider, limitVars, auditVars, inflight, users, sessions, now, loggedOut>>

\* CreateUser up to its conflict check: answered 409, or on its way to db.Create
CreateUserCheck ==
    \E authHeader \in ClientHeaders :
        LET mw == AuthMiddleware(authHeader) IN
        IF ~mw.pass THEN Rejected("CreateUser", authHeader, mw)
        ELSE IF ~RequireRole(mw.user, "admin") THEN Forbidden("CreateUser", authHeader, mw)
        ELSE \E username \in Usernames, email \in Emails, password \in NewPasswords,
                roleIDs \in RoleSets :
             IF CreateUserConflict(username, email)
             THEN Answered("CreateUser", authHeader, 409,
                           "User with this username or email already exists", mw.user.id)
             ELSE /\ Cardinality(inflight) < MaxInflight
                  /\ inflight' = inflight \cup
                        {[op |-> "CreateUser", authHeader |-> authHeader, by |-> mw.user.id,
                          username |-> username, email |-> email,
                          password |-> password, roleIDs |-> roleIDs]}
                  /\ UNCHANGED <<authProvider, limitVars, auditVars, users, sessions, now, loggedOut, last>>

\* CreateUser from db.Create on
CreateUserInsert ==
    \E req \in inflight, id \in FreshIds :
        /\ req.op = "CreateUser"
        /\ LET r == CreateUserInsertResp(req.username, req.email, req.password,
                                         req.roleIDs, id) IN
           /\ r.status = 201 => id \in UserIds
           /\ users' = r.users
           /\ last' = Record("CreateUser", HeaderToken(req.authHeader), r.status, r.error, req.by)
        /\ inflight' = inflight \ {req}
        /\ UNCHANGED <<authProvider, limitVars, auditVars, sessions, now, loggedOut>>

\* UpdateUser up to its conflict checks: answered 404 or 409, or on its way
\* to db.Save with the row it loaded
UpdateUserRead ==
    \E authHeader \in ClientHeaders :
        LET mw == AuthMiddleware(authHeader) IN
        IF ~mw.pass THEN Rejected("UpdateUser", authHeader, mw)
        ELSE IF ~RequireRole(mw.user, "admin") THEN Forbidden("UpdateUser", authHeader, mw)
        ELSE \E userID \in UserIds :
             \E username \in FieldValues(userID, UpdateUsernames,
                                         [i \in DOMAIN users |-> users[i].username]),
                email \in FieldValues(userID, UpdateEmails,
                                      [i \in DOMAIN users |-> users[i].email]),
                roleIDs \in UpdateRoles :
             LET check == UpdateUserCheck(userID, username, email) IN
             IF check.status # 0
             THEN Answered("UpdateUser", authHeader, check.status, check.error, mw.user.id)
             ELSE /\ Cardinality(inflight) < MaxInflight
                  /\ inflight' = inflight \cup
                        {[op |-> "UpdateUser", authHeader |-> authHeader, by |-> mw.user.id,
                          userID |-> userID,
                          saved |-> UpdateUserFields(users[userID], username, email, Absent),
                          roleIDs |-> roleIDs]}
                  /\ UNCHANGED <<authProvider, limitVars, auditVars, users, sessions, now, loggedOut, last>>

\* UpdateUser from db.Save on
UpdateUserSave ==
    \E req \in inflight :
        /\ req.op = "UpdateUser"
        /\ LET r == UpdateUserSaveResp(req.userID, req.saved, req.roleIDs) IN
           /\ users' = r.users
           /\ last' = Record("UpdateUser", HeaderToken(req.authHeader), r.status, r.error, req.by)
        /\ inflight' = inflight \ {req}
        /\ UNCHANGED <<authProvider, limitVars, auditVars, sessions, now, loggedOut>>

\* Login up to the tokens it generates: answered 401 or 500, or its session
\* is created and it is on its way to db.Save(&user) with the row it loaded
LoginCreate ==
    \E username \in Idents, password \in Passwords :
        LET r == LoginResp(username, password, NewToken) IN
        IF ~r.created
        THEN /\ last' = Record("Login", NoToken, r.resp.status, r.resp.error, r.user)
             /\ UNCHANGED <<authProvider, limitVars, auditVars, inflight, users, sessions, now, loggedOut>>
        ELSE /\ NewToken \in SessionTokens
             /\ Cardinality(inflight) < MaxInflight
             /\ sessions' = [t \in DOMAIN sessions \cup {NewToken} |->
                                IF t = NewToken THEN r.session ELSE sessions[t]]
             /\ inflight' = inflight \cup
                    {[op |-> "Login", session |-> NewToken, saved |-> users[r.user]]}
             /\ UNCHANGED <<authProvider, limitVars, auditVars, users, now, loggedOut, last>>

\* Login from h.db.Save(&user) on: every column of the row held in memory
\* is written (LastLoginAt, the one that changed, is not modelled), then 200
LoginSave ==
    \E req \in inflight :
        /\ req.op = "Login"
        /\ users' = [users EXCEPT ![req.saved.id] = req.saved]
        /\ last' = Record("Login", NoToken, 200, "", req.saved.id)
        /\ inflight' = inflight \ {req}
        /\ UNCHANGED <<authProvider, limitVars, auditVars, sessions, now, loggedOut>>

\* ------------------------------------------------------------ user listing
\* Go's int, two's complement.  The handlers run with 64-bit ints; the model
\* keeps IntBits of them, so that the same wrap-around happens on small numbers
IntBits == 16
MaxInt == 2^(IntBits - 1) - 1
WrapInt(x) ==
    LET m == x % (2^IntBits) IN IF m > MaxInt THEN m - 2^IntBits ELSE m

\* a query value is the sequence of its characters
Digit == [c \in {"0", "1", "2", "3", "4", "5", "6", "7", "8", "9"} |->
            CASE c = "0" -> 0 [] c = "1" -> 1 [] c = "2" -> 2 [] c = "3" -> 3
              [] c = "4" -> 4 [] c = "5" -> 5 [] c = "6" -> 6 [] c = "7" -> 7
              [] c = "8" -> 8 [] c = "9" -> 9]

\* the value of a digit string, saturating above MaxInt + 1
RECURSIVE ParseDigits(_, _)
ParseDigits(str, acc) ==
    IF str = <<>> THEN acc
    ELSE LET v == acc * 10 + Digit[Head(str)] IN
         ParseDigits(Tail(str), IF v > MaxInt + 1 THEN MaxInt + 1 ELSE v)

\* strconv.Atoi with its error dropped: 0 on a syntax error, the nearest
\* bound on a range error
Atoi(str) ==
    LET neg == str # <<>> /\ Head(str) = "-"
        digits == IF str # <<>> /\ Head(str) \in {"-", "+"} THEN Tail(str) ELSE str
    IN IF digits = <<>> \/ \E i \in DOMAIN digits : digits[i] \notin DOMAIN Digit THEN 0
       ELSE LET v == ParseDigits(digits, 0) IN
            IF neg THEN -v
            ELSE IF v > MaxInt THEN MaxInt ELSE v

\* c.DefaultQuery(key, defaultValue)
DefaultQuery(param, defaultValue) == IF param = Absent THEN defaultValue ELSE param

\* the page and limit parameters of the requests
PageParams == {Absent, <<"0">>, <<"2">>, <<"3">>, <<"-", "1">>, <<"1", "6", "3", "8", "5">>}
LimitParams == {Absent, <<"0">>, <<"4">>, <<"1", "0", "0">>, <<"1", "0", "1">>, <<"x">>}

\* the ids of S in ascending order
KeyOrder(S) ==
    IF S = {} THEN <<>>
    ELSE LET top == CHOOSE m \in S : \A n \in S : n <= m
         IN SelectSeq([i \in 1..top |-> i], LAMBDA i : i \in S)

\* query.Offset(offset).Limit(limit).Find(&users): gorm writes OFFSET only
\* when offset > 0.  The query has no ORDER BY; the rows are taken in key order
Find(offset, limit) ==
    LET rows == KeyOrder(LiveUsers)
        from == IF offset > 0 THEN offset + 1 ELSE 1
        upto == IF from + limit - 1 > Len(rows) THEN Len(rows) ELSE from + limit - 1
    IN SubSeq(rows, from, upto)

\* the body UserHandler.GetUsers answers with (search left empty)
GetUsersResp(pageParam, limitParam) ==
    LET page0 == Atoi(DefaultQuery(pageParam, <<"1">>))
        limit0 == Atoi(DefaultQuery(limitParam, <<"1", "0">>))
        page == IF page0 < 1 THEN 1 ELSE page0
        limit == IF limit0 < 1 \/ limit0 > 100 THEN 10 ELSE limit0
        offset == WrapInt((page - 1) * limit)
        total == Cardinality(LiveUsers)
    IN [status |-> 200,
        users |-> Find(offset, limit),
        current_page |-> page,
        total_pages |-> (total + limit - 1) \div limit,
        total_items |-> total,
        items_per_page |-> limit]

\* GET /api/users with the given sets of page and limit parameters
GetUsersWith(pageParams, limitParams) ==
    \E authHeader \in ClientHeaders :
        LET mw == AuthMiddleware(authHeader) IN
        IF ~mw.pass THEN Rejected("GetUsers", authHeader, mw)
        ELSE IF ~RequireRole(mw.user, "admin") THEN Forbidden("GetUsers", authHeader, mw)
        ELSE \E pageParam \in pageParams, limitParam \in limitParams :
             LET r == GetUsersResp(pageParam, limitParam) IN
             /\ last' = Record("GetUsers", HeaderToken(authHeader), r.status, "", mw.user.id) @@
                        [page |-> Atoi(DefaultQuery(pageParam, <<"1">>)),
                         limit |-> Atoi(DefaultQuery(limitParam, <<"1", "0">>)),
                         count |-> Len(r.users), total_pages |-> r.total_pages]
             /\ UNCHANGED <<authProvider, limitVars, auditVars, inflight, users, sessions, now, loggedOut>>

\* GET /api/users without query parameters
GetUsers == GetUsersWith({Absent}, {Absent})

\* GET /api/users?page=..&limit=..
GetUsersPage == GetUsersWith(PageParams, LimitParams)

\* the status of UserHandler.GetUser and the row it answers with
GetUserResp(userID) ==
    IF userID \notin LiveUsers
    THEN [status |-> 404, error |-> "User not found", user |-> ZeroUser]
    ELSE [status |-> 200, error |-> "", user |-> [users[userID] EXCEPT !.password = ""]]

GetUser ==
    \E authHeader \in ClientHeaders :
        LET mw == AuthMiddleware(authHeader) IN
        IF ~mw.pass THEN Rejected("GetUser", authHeader, mw)
        ELSE IF ~RequireRole(mw.user, "admin") THEN Forbidden("GetUser", authHeader, mw)
        ELSE \E userID \in UserIds :
             LET r == GetUserResp(userID) IN
             /\ last' = Record("GetUser", HeaderToken(authHeader), r.status, r.error, mw.user.id)
             /\ UNCHANGED <<authProvider, limitVars, auditVars, inflight, users, sessions, now, loggedOut>>

\* ------------------------------------------------------ roles, permissions
\* a Go []string: nil, or a list (possibly empty)
NilSlice == [nil |-> TRUE, elems |-> <<>>]
Slice(list) == [nil |-> FALSE, elems |-> list]

\* a JSON text is the sequence of its lexemes: <<>> is the empty string,
\* <<"[", "a", "b", "]">> is ["a","b"], <<"null">> is null
\* the strings of the model that are not valid UTF-8 ("\xFF" is the byte
\* 0xFF), and what json.Marshal writes for a string: invalid bytes are
\* replaced by U+FFFD
InvalidUTF8 == {"audit:\\xFF"}
ToValidUTF8(str) == IF str = "audit:\\xFF" THEN "audit:\\uFFFD" ELSE str

\* json.Marshal of a []string: null for a nil slice, else the array of the
\* strings coerced to valid UTF-8
jsonMarshal(slice) ==
    IF slice.nil THEN <<"null">>
    ELSE <<"[">> \o [i \in DOMAIN slice.elems |-> ToValidUTF8(slice.elems[i])] \o <<"]">>

\* json.Valid, for the texts a []string can be decoded from
jsonValid(text) ==
    \/ text = <<"null">>
    \/ /\ Len(text) >= 2
       /\ text[1] = "["
       /\ text[Len(text)] = "]"
       /\ \A i \in 2..(Len(text) - 1) : text[i] \notin {"[", "]", "null"}

\* json.Unmarshal(text, &into): a text that is not valid JSON leaves `into`
\* as it was (the error is returned), null makes it nil
jsonUnmarshal(text, into) ==
    IF ~jsonValid(text) THEN into
    ELSE IF text = <<"null">> THEN NilSlice
    ELSE Slice(SubSeq(text, 2, Len(text) - 1))

\* Role.GetPermissions (the error of json.Unmarshal is dropped)
GetPermissions(r) ==
    IF r.Permissions = <<>> THEN Slice(<<>>)
    ELSE jsonUnmarshal(r.Permissions, NilSlice)

\* variant: the slice is marshalled as it was passed
SetPermissions_Raw(r, permissions) ==
    [r EXCEPT !.Permissions = jsonMarshal(permissions)]

\* Role.SetPermissions
SetPermissions(r, permissions) ==
    [r EXCEPT !.Permissions = jsonMarshal(IF permissions.nil THEN Slice(<<>>) ELSE permissions)]

\* database.Seed: the two default roles
adminRole ==
    SetPermissions([Name |-> "admin", Permissions |-> <<>>],
        Slice(<<"user:create", "user:read", "user:update", "user:delete",
                "role:create", "role:read", "role:update", "role:delete",
                "policy:create", "policy:read", "policy:update", "policy:delete",
                "audit:read">>))
userRole ==
    SetPermissions([Name |-> "user", Permissions |-> <<>>],
        Slice(<<"profile:read", "profile:update">>))

\* the slices a caller can pass to SetPermissions: nil, or a list of at most
\* MaxPerms strings
PermissionNames == {"user:read", "audit:read", "", "audit:\\xFF"}
PermissionSlices ==
    {NilSlice} \cup {Slice(l) : l \in UNION {[1..n -> PermissionNames] : n \in 0..MaxPerms}}

\* what `last` keeps of a call on a role: the role after the call, whether
\* SetPermissions was ever called on it and with what, and what
\* GetPermissions returned
RoleRecord(op, r, set, permissions, result) ==
    [op |-> op, status |-> 0, error |-> "", role |-> r, set |-> set,
     permissions |-> permissions, result |-> result]

\* r.SetPermissions(permissions) on the role at hand
SetPermissionsCall ==
    \E permissions \in PermissionSlices :
        /\ last' = RoleRecord("SetPermissions", SetPermissions(last.role, permissions),
                              TRUE, permissions, NilSlice)
        /\ UNCHANGED <<authProvider, limitVars, auditVars, inflight, users, sessions, now, loggedOut>>

\* r.GetPermissions() on the role at hand
GetPermissionsCall ==
    /\ last' = RoleRecord("GetPermissions", last.role, last.set, last.permissions,
                          GetPermissions(last.role))
    /\ UNCHANGED <<authProvider, limitVars, auditVars, inflight, users, sessions, now, loggedOut>>

\* the rows the roles table can hold: the seeded ones, and a role whose
\* permissions column was never set, holds an empty or a short list, or a
\* text cut short
PermissionTexts ==
    {<<>>, <<"[", "]">>, <<"[", "user:read">>,
     <<"[", "profile:update", "audit:read", "]">>}
RoleRows ==
    {adminRole, userRole} \cup
    {[Name |-> "auditor", Permissions |-> t] : t \in PermissionTexts}

\* the gin context a gate sees: no "user" key, or the user the authenticator
\* stored, with its preloaded roles (at most MaxRoles of them)
RoleLists ==
    UNION {[1..n -> RoleRows] : n \in 0..MaxRoles}
CtxUser(Roles) ==
    [id |-> 1, roles |-> {Roles[i].Name : i \in DOMAIN Roles}, Roles |-> Roles]
Contexts ==
    {EmptyMap} \cup {("user" :> CtxUser(Roles)) : Roles \in RoleLists}
RequiredPermissions == {"user:read", "audit:read", "profile:update"}

\* the answer of a gate: c.Next(), or c.JSON(status, error) and c.Abort()
GateNext == [pass |-> TRUE, status |-> 200, error |-> ""]
GateAbort(status, error) == [pass |-> FALSE, status |-> status, error |-> error]

\* variant: a context without identity is let through
RequireRoleMiddleware_FailOpen(ctx, requiredRole) ==
    IF "user" \notin DOMAIN ctx THEN GateNext
    ELSE IF ~RequireRole(ctx.user, requiredRole)
    THEN GateAbort(403, "Role '" \o requiredRole \o "' is required")
    ELSE GateNext

\* middleware.RequireRole(requiredRole), the whole handler
RequireRoleMiddleware(ctx, requiredRole) ==
    IF "user" \notin DOMAIN ctx THEN GateAbort(401, "User not found in context")
    ELSE IF ~RequireRole(ctx.user, requiredRole)
    THEN GateAbort(403, "Role '" \o requiredRole \o "' is required")
    ELSE GateNext

\* the inner loop of RequirePermission: permission == requiredPermission
HasPermission(permissions, requiredPermission) ==
    \E i \in DOMAIN permissions.elems : permissions.elems[i] = requiredPermission

\* variant: only the first role of the user is looked at
RequirePermissionMiddleware_FirstRole(ctx, requiredPermission) ==
    IF "user" \notin DOMAIN ctx THEN GateAbort(401, "User not found in context")
    ELSE LET Roles == ctx.user.Roles IN
    IF ~(Len(Roles) > 0 /\ HasPermission(GetPermissions(Roles[1]), requiredPermission))
    THEN GateAbort(403, "Permission '" \o requiredPermission \o "' is required")
    ELSE GateNext

\* middleware.RequirePermission(requiredPermission), the whole handler
RequirePermissionMiddleware(ctx, requiredPermission) ==
    IF "user" \notin DOMAIN ctx THEN GateAbort(401, "User not found in context")
    ELSE LET Roles == ctx.user.Roles IN
    IF ~(\E i \in DOMAIN Roles : HasPermission(GetPermissions(Roles[i]), requiredPermission))
    THEN GateAbort(403, "Permission '" \o requiredPermission \o "' is required")
    ELSE GateNext

\* what `last` keeps of a request to a gated route: the context, the name
\* required and the answer
GateRecord(op, ctx, required, mw) ==
    [op |-> op, status |-> mw.status, error |-> mw.error,
     ctx |-> ctx, required |-> required, pass |-> mw.pass]

\* a request reaches a route behind RequireRole(requiredRole)
RoleGate ==
    \E ctx \in Contexts, requiredRole \in RoleNames :
        /\ last' = GateRecord("RequireRole", ctx, requiredRole,
                              RequireRoleMiddleware(ctx, requiredRole))
        /\ UNCHANGED <<authProvider, limitVars, auditVars, inflight, users, sessions, now, loggedOut>>

\* a request reaches a route behind RequirePermission(requiredPermission)
PermissionGate ==
    \E ctx \in Contexts, requiredPermission \in RequiredPermissions :
        /\ last' = GateRecord("RequirePermission", ctx, requiredPermission,
                              RequirePermissionMiddleware(ctx, requiredPermission))
        /\ UNCHANGED <<authProvider, limitVars, auditVars, inflight, users, sessions, now, loggedOut>>

\* ---------------------------------------------------------------- Recovery
\* the values a handler can panic with: a string, an error, a runtime error
PanicValues ==
    {[type |-> "string", value |-> "pq: password authentication failed"],
     [type |-> "string", value |-> "index out of range"],
     [type |-> "error", value |-> "record not found"],
     [type |-> "runtime.Error", value |-> "invalid memory address or nil pointer dereference"]}

\* the routes main registers
Routes ==
    {<<"POST", "/api/auth/login">>, <<"POST", "/api/auth/refresh">>,
     <<"POST", "/api/auth/logout">>, <<"GET", "/api/auth/me">>,
     <<"POST", "/api/auth/change-password">>,
     <<"GET", "/api/users">>, <<"POST", "/api/users">>, <<"GET", "/api/users/:id">>,
     <<"PUT", "/api/users/:id">>, <<"DELETE", "/api/users/:id">>,
     <<"GET", "/health">>}

\* the function Recovery hands to gin.CustomRecovery: the response it writes
Recovery(recovered) ==
    IF recovered.type = "string"
    THEN [status |-> 500,
          body |-> ("error" :> "Internal Server Error") @@ ("message" :> recovered.value)]
    ELSE [status |-> 500, body |-> EmptyMap]

\* a handler of some route panics; gin's recovery calls the function
Panic ==
    \E route \in Routes, recovered \in PanicValues :
        LET r == Recovery(recovered) IN
        /\ last' = [op |-> "Recovery", status |-> r.status, error |-> "",
                    route |-> route, recovered |-> recovered, body |-> r.body]
        /\ UNCHANGED <<authProvider, limitVars, auditVars, inflight, users, sessions, now, loggedOut>>

\* --------------------------------------------------------- AuditMiddleware
\* the requests a router that uses AuditMiddleware serves: the route, the
\* context the handler chain leaves (with or without "user") and the status
\* the chain wrote
AuditedRequests ==
    {[route |-> <<"POST", "/api/auth/login">>, ctx |-> EmptyMap, status |-> 200],
     [route |-> <<"POST", "/api/auth/login">>, ctx |-> EmptyMap, status |-> 401],
     [route |-> <<"GET", "/api/auth/me">>, ctx |-> ("user" :> CtxUser(<<adminRole>>)), status |-> 200],
     [route |-> <<"GET", "/api/auth/me">>, ctx |-> EmptyMap, status |-> 401]}

\* the models.AuditLog the middleware builds after c.Next()
AuditLog(req) ==
    [UserID |-> IF "user" \in DOMAIN req.ctx THEN req.ctx.user.id ELSE NilUUID,
     Action |-> req.route[1],
     Resource |-> req.route[2],
     Success |-> req.status < 400,
     status_code |-> req.status]

\* variant: the row is written before the middleware returns, and a failed
\* write fails the request
AuditMiddleware_Sync(req, created) ==
    [status |-> IF created THEN req.status ELSE 500,
     launched |-> <<>>,
     written |-> IF created THEN <<AuditLog(req)>> ELSE <<>>]

\* AuditMiddleware after c.Next(): the response stays as the chain wrote it
\* and one goroutine is launched; whether db.Create will succeed (created)
\* plays no part
AuditMiddleware(req, created) ==
    [status |-> req.status,
     launched |-> <<AuditLog(req)>>,
     written |-> <<>>]

\* a request served by a router that uses AuditMiddleware
Audited ==
    \E req \in AuditedRequests, created \in BOOLEAN :
        LET r == AuditMiddleware(req, created) IN
        /\ Len(auditLogs) + Len(auditWrites) < MaxAudit
        /\ auditWrites' = auditWrites \o r.launched
        /\ auditLogs' = auditLogs \o r.written
        /\ last' = [op |-> "Audit", status |-> r.status, error |-> "",
                    route |-> req.route, handler |-> req.status]
        /\ UNCHANGED <<authProvider, limitVars, inflight, users, sessions, now, loggedOut>>

\* one of the launched goroutines runs db.Create(auditLog): the row is
\* inserted, or the error is printed
AuditWrite ==
    \E i \in DOMAIN auditWrites, created \in BOOLEAN :
        /\ auditWrites' = SubSeq(auditWrites, 1, i - 1) \o
                          SubSeq(auditWrites, i + 1, Len(auditWrites))
        /\ auditLogs' = IF created THEN Append(auditLogs, auditWrites[i]) ELSE auditLogs
        /\ UNCHANGED <<authProvider, limitVars, inflight, users, sessions, now, loggedOut, last>>

\* variant: the goroutines hand their rows to one worker that inserts them
\* in the order they were launched
AuditCreate_Queue(writes, logs, i, created) ==
    [writes |-> SubSeq(writes, i + 1, Len(writes)),
     logs |-> logs \o SubSeq(writes, 1, i)]

\* the goroutine of writes[i] runs db.Create: it ends, and its row is in
\* the table unless the insert failed
AuditCreate(writes, logs, i, created) ==
    [writes |-> SubSeq(writes, 1, i - 1) \o SubSeq(writes, i + 1, Len(writes)),
     logs |-> IF created THEN Append(logs, writes[i]) ELSE logs]

\* the middleware function returns: the chain has written the response to
\* the writer, the goroutine is launched, and the server has yet to finish
\* the request.  Requests are numbered (n) in the order their middleware
\* returns; the number is not a column of the row
AuditReturn ==
    \E req \in AuditedRequests, created \in BOOLEAN :
        LET r == AuditMiddleware(req, created)
            n == now + 1 IN
        /\ now < MaxAudit
        /\ now' = n
        /\ auditWrites' = auditWrites \o [i \in DOMAIN r.launched |-> r.launched[i] @@ ("n" :> n)]
        /\ auditLogs' = auditLogs \o r.written
        /\ inflight' = inflight \cup {[op |-> "Audit", n |-> n, status |-> r.status,
                                       route |-> req.route, handler |-> req.status]}
        /\ UNCHANGED <<authProvider, limitVars, users, sessions, loggedOut, last>>

\* the server finishes a request whose middleware returned: the response
\* is sent
AuditRespond ==
    \E r \in inflight :
        /\ inflight' = inflight \ {r}
        /\ last' = [op |-> "Audit", status |-> r.status, error |-> "",
                    route |-> r.route, handler |-> r.handler, n |-> r.n]
        /\ UNCHANGED <<authProvider, limitVars, auditVars, users, sessions, now, loggedOut>>

\* one of the launched goroutines runs, whatever became of its request
AuditCreateAny ==
    \E i \in DOMAIN auditWrites, created \in BOOLEAN :
        LET r == AuditCreate(auditWrites, auditLogs, i, created) IN
        /\ auditWrites' = r.writes
        /\ auditLogs' = r.logs
        /\ UNCHANGED <<authProvider, limitVars, inflight, users, sessions, now, loggedOut, last>>

\* ------------------------------------------------- AuthProvider (frontend)
\* localStorage.getItem of a key that is not stored; also the user of a
\* provider nobody is logged in to
Null == "<null>"

\* useState<User | null>(null), useState(true), a localStorage with these
\* tokens, and no async function started
ProviderState(access, refresh) ==
    [user |-> Null, loading |-> TRUE,
     access_token |-> access, refresh_token |-> refresh,
     initAuth |-> "start", sent |-> Null, login |-> "idle", logout |-> "idle"]

\* the backend specifications never run the frontend
InitAuthProvider == authProvider = ProviderState(Null, Null)

\* what a fetch and the reading of its response come to: response.ok, a
\* response that is not ok, or a rejected promise
FetchOutcomes == {"ok", "http_error", "network_failure"}

\* localStorage.removeItem of both tokens; setUser(null)
clearTokens(p) ==
    [p EXCEPT !.access_token = Null, !.refresh_token = Null, !.user = Null]

\* refreshToken up to its fetch: without a stored refresh token it throws
\* before its try block, and the exception leaves initAuth's catch block
refreshTokenCall(p) ==
    IF p.refresh_token = Null
    THEN [p EXCEPT !.initAuth = "rejected"]
    ELSE [p EXCEPT !.initAuth = "refresh", !.sent = p.refresh_token]

\* refreshToken from the answer of its fetch on; the backend answers with
\* the refresh token it was sent.  After a failure the catch block throws
\* again, and initAuth, which awaited it in its own catch block, is rejected
refreshTokenAnswer(p, outcome) ==
    IF outcome = "ok"
    THEN [p EXCEPT !.access_token = "a2", !.refresh_token = p.sent, !.user = "admin",
                   !.loading = FALSE, !.initAuth = "done", !.sent = Null]
    ELSE [clearTokens(p) EXCEPT !.initAuth = "rejected", !.sent = Null]

\* the effect after the first render: initAuth up to the fetch of
\* getCurrentUser, or to its end when no access token is stored
InitAuthStart ==
    /\ authProvider.initAuth = "start"
    /\ authProvider' =
          IF authProvider.access_token # Null
          THEN [authProvider EXCEPT !.initAuth = "me"]
          ELSE [authProvider EXCEPT !.loading = FALSE, !.initAuth = "done"]
    /\ UNCHANGED <<limitVars, auditVars, inflight, users, sessions, now, loggedOut, last>>

\* the fetch of /api/auth/me settles: setUser and setLoading(false), or
\* the catch block calls refreshToken
MeAnswer ==
    \E outcome \in FetchOutcomes :
        /\ authProvider.initAuth = "me"
        /\ authProvider' =
              IF outcome = "ok"
              THEN [authProvider EXCEPT !.user = "admin", !.loading = FALSE,
                                        !.initAuth = "done"]
              ELSE refreshTokenCall(authProvider)
        /\ UNCHANGED <<limitVars, auditVars, inflight, users, sessions, now, loggedOut, last>>

\* the fetch of /api/auth/refresh settles
RefreshAnswer ==
    \E outcome \in FetchOutcomes :
        /\ authProvider.initAuth = "refresh"
        /\ authProvider' = refreshTokenAnswer(authProvider, outcome)
        /\ UNCHANGED <<limitVars, auditVars, inflight, users, sessions, now, loggedOut, last>>

\* login up to its fetch: setLoading(true)
ProviderLogin ==
    /\ authProvider.login = "idle"
    /\ authProvider' = [authProvider EXCEPT !.loading = TRUE, !.login = "fetch"]
    /\ UNCHANGED <<limitVars, auditVars, inflight, users, sessions, now, loggedOut, last>>

\* the fetch of /api/auth/login settles: the tokens are stored and the user
\* is set, or the error is thrown on; finally setLoading(false)
ProviderLoginAnswer ==
    \E outcome \in FetchOutcomes :
        /\ authProvider.login = "fetch"
        /\ authProvider' =
              IF outcome = "ok"
              THEN [authProvider EXCEPT !.access_token = "a1", !.refresh_token = "r1",
                                        !.user = "admin", !.loading = FALSE, !.login = "idle"]
              ELSE [authProvider EXCEPT !.loading = FALSE, !.login = "idle"]
        /\ UNCHANGED <<limitVars, auditVars, inflight, users, sessions, now, loggedOut, last>>

\* logout up to its fetch, or to its end when no access token is stored
ProviderLogout ==
    /\ authProvider.logout = "idle"
    /\ authProvider' =
          IF authProvider.access_token # Null
          THEN [authProvider EXCEPT !.loading = TRUE, !.logout = "fetch"]
          ELSE [clearTokens(authProvider) EXCEPT !.loading = FALSE]
    /\ UNCHANGED <<limitVars, auditVars, inflight, users, sessions, now, loggedOut, last>>

\* the fetch of /api/auth/logout settles, no matter how: the finally block
ProviderLogoutAnswer ==
    /\ authProvider.logout = "fetch"
    /\ authProvider' = [clearTokens(authProvider) EXCEPT !.loading = FALSE, !.logout = "idle"]
    /\ UNCHANGED <<limitVars, auditVars, inflight, users, sessions, now, loggedOut, last>>

\* --------------------------------------------------------------- RateLimit
IPs == {"10.0.0.1", "10.0.0.2"}

\* clients := make(map[string][]time.Time)
InitLimit ==
    /\ clients = EmptyMap
    /\ admitted = [ip \in IPs |-> <<>>]
    /\ limiting = {}
    /\ raced = {}

\* clients[clientIP] = value
MapPut(m, k, value) == [x \in DOMAIN m \cup {k} |-> IF x = k THEN value ELSE m[x]]
\* clients[clientIP]: the zero value (a nil slice) for a key the map lacks
MapGet(m, k) == IF k \in DOMAIN m THEN m[k] ELSE <<>>

\* variant: entries never leave the history
validRequests_Keep(requests, t) == requests

\* the loop over requests: the entries not older than one minute
validRequests(requests, t) ==
    SelectSeq(requests, LAMBDA reqTime : t - reqTime <= Minute)

\* variant: the limit is reached one request later
LimitExceeded_Late(n) == n > RateLimitMax

\* len(clients[clientIP]) >= 100
LimitExceeded(n) == n >= RateLimitMax

\* what RateLimit answers to a request of clientIP and the map it leaves,
\* when nothing else touches the map meanwhile
RateLimitResp(clientIP) ==
    LET cleaned == IF clientIP \in DOMAIN clients
                   THEN MapPut(clients, clientIP, validRequests(clients[clientIP], now))
                   ELSE clients IN
    IF LimitExceeded(Len(MapGet(cleaned, clientIP)))
    THEN [pass |-> FALSE, status |-> 429, error |-> "Rate limit exceeded", clients |-> cleaned]
    ELSE [pass |-> TRUE, status |-> 200, error |-> "",
          clients |-> MapPut(cleaned, clientIP, Append(MapGet(cleaned, clientIP), now))]

\* what `last` keeps of a request that went through RateLimit
LimitRecord(clientIP, status, error) ==
    [op |-> "RateLimit", status |-> status, error |-> error, ip |-> clientIP]

\* a request passes through RateLimit, alone
RateLimit ==
    \E clientIP \in IPs :
        LET r == RateLimitResp(clientIP) IN
        /\ clients' = r.clients
        /\ admitted' = IF r.pass
                       THEN [admitted EXCEPT ![clientIP] = Append(@, now)]
                       ELSE admitted
        /\ last' = LimitRecord(clientIP, r.status, r.error)
        /\ UNCHANGED <<authProvider, auditVars, inflight, limiting, raced, users, sessions, now, loggedOut>>

\* RateLimit statement by statement, for requests that run at once.  The map
\* is shared without a lock: a step is one statement's access to it, and a
\* write that meets another access may end the process instead
MapFaultMessage == "fatal error: concurrent map writes"
Crashed == last.error = MapFaultMessage

\* the requests let through so far
RECURSIVE SumLen(_, _)
SumLen(f, S) ==
    IF S = {} THEN 0
    ELSE LET x == CHOOSE y \in S : TRUE IN Len(f[x]) + SumLen(f, S \ {x})
Admissions == SumLen(admitted, IPs)

\* the requests that run at once are told apart by a number; two of them
\* are enough for every interleaving of a pair
Slots == {1, 2}
FreeSlots == {n \in Slots : \A req \in limiting : req.n # n}

\* clientIP, now and the read of clients[clientIP] before the loop
LimitEnter ==
    \E clientIP \in IPs :
        /\ ~Crashed
        /\ FreeSlots # {}
        /\ Admissions + Cardinality(limiting) < MaxAdmitted
        /\ limiting' = limiting \cup
              {[n |-> Min(FreeSlots), ip |-> clientIP, now |-> now,
                pc |-> IF clientIP \in DOMAIN clients THEN "clean" ELSE "check",
                requests |-> MapGet(clients, clientIP)]}
        /\ raced' = IF \E req \in limiting : req.ip = clientIP
                    THEN raced \cup {clientIP} ELSE raced
        /\ UNCHANGED <<authProvider, auditVars, inflight, clients, admitted, users, sessions, now,
                       loggedOut, last>>

\* clients[clientIP] = validRequests, built from the entries read on entry
LimitClean ==
    \E req \in limiting :
        /\ ~Crashed
        /\ req.pc = "clean"
        /\ clients' = MapPut(clients, req.ip, validRequests(req.requests, req.now))
        /\ limiting' = (limiting \ {req}) \cup {[req EXCEPT !.pc = "check"]}
        /\ UNCHANGED <<authProvider, auditVars, inflight, admitted, raced, users, sessions, now,
                       loggedOut, last>>

\* the check of the limit: 429 and c.Abort(), or on to the append
LimitCheck ==
    \E req \in limiting :
        /\ ~Crashed
        /\ req.pc = "check"
        /\ IF LimitExceeded(Len(MapGet(clients, req.ip)))
           THEN /\ limiting' = limiting \ {req}
                /\ last' = LimitRecord(req.ip, 429, "Rate limit exceeded")
           ELSE /\ limiting' = (limiting \ {req}) \cup {[req EXCEPT !.pc = "append"]}
                /\ UNCHANGED last
        /\ UNCHANGED <<authProvider, auditVars, inflight, clients, admitted, raced, users, sessions,
                       now, loggedOut>>

\* clients[clientIP] = append(clients[clientIP], now) and c.Next()
LimitAppend ==
    \E req \in limiting :
        /\ ~Crashed
        /\ req.pc = "append"
        /\ clients' = MapPut(clients, req.ip, Append(MapGet(clients, req.ip), req.now))
        /\ admitted' = [admitted EXCEPT ![req.ip] = Append(@, req.now)]
        /\ limiting' = limiting \ {req}
        /\ last' = LimitRecord(req.ip, 200, "")
        /\ UNCHANGED <<authProvider, auditVars, inflight, raced, users, sessions, now, loggedOut>>

\* a write to the map meets another request's access to it and the runtime
\* ends the process
MapFault ==
    \E req \in limiting :
        /\ ~Crashed
        /\ req.pc \in {"clean", "append"}
        /\ limiting \ {req} # {}
        /\ limiting' = {}
        /\ last' = LimitRecord(req.ip, 0, MapFaultMessage)
        /\ UNCHANGED <<authProvider, auditVars, inflight, clients, admitted, raced, users, sessions,
                       now, loggedOut>>

\* a tick of the clock
TickSecond ==
    /\ now < MaxClock
    /\ now' = now + 1
    /\ UNCHANGED <<authProvider, auditVars, inflight, limitVars, users, sessions, loggedOut, last>>

\* ------------------------------------------------------------------- clock
\* time passes.  The only deadline the store holds is Session.ExpiresAt (a
\* presented token's exp is drawn relative to now), so the clock moves to a
\* session's expiry instant or to the first instant after it
Tick ==
    \E k \in DOMAIN sessions, d \in {0, 1} :
        /\ sessions[k].expiresAt + d > now
        /\ sessions[k].expiresAt + d <= MaxTime
        /\ now' = sessions[k].expiresAt + d
        /\ last' = Record("Tick", NoToken, 0, "", NoCtx)
        /\ UNCHANGED <<authProvider, limitVars, auditVars, inflight, users, sessions, loggedOut>>

\* ------------------------------------------------------------------- Init
\* database.Seed: the admin user, password "password"; its uuid.New() id is
\* opaque, and the first id stands for it
Init ==
    /\ LET id == Min(UserIds) IN
        users = (id :> [id |-> id, username |-> "admin", email |-> "admin@gauth.local",
                        password |-> GenerateFromPassword("password"),
                        isActive |-> TRUE, deleted |-> FALSE, roles |-> {"admin"}])
    /\ sessions = EmptyMap
    /\ now = 0
    /\ loggedOut = {}
    /\ last = Record("Init", NoToken, 0, "", NoCtx)
    /\ auditLogs = <<>>
    /\ auditWrites = <<>>
    /\ inflight = {}
    /\ InitLimit
    /\ InitAuthProvider

\* the authentication flow over time, on the seeded store.  main installs
\* Logger, Recovery and CORS on the router and AuthMiddleware and RequireRole
\* on its groups: no route runs AuditMiddleware, no request launches a write
Next ==
    \/ Login
    \/ RefreshToken
    \/ Me
    \/ Logout
    \/ DeleteUser
    \/ Tick

Spec == Init /\ [][Next]_vars

\* the credential store under administration, at one instant
NextUsers ==
    \/ Login
    \/ GetUsers
    \/ GetUser
    \/ CreateUser
    \/ UpdateUser
    \/ DeleteUser

SpecUsers == Init /\ [][NextUsers]_vars

\* a store with up to MaxRows users, the last of them possibly soft-deleted:
\* the seeded admin, logged in, and the users an admin created
UserRow(i) ==
    IF i = 1
    THEN [id |-> 1, username |-> "admin", email |-> "admin@gauth.local",
          password |-> GenerateFromPassword("password"),
          isActive |-> TRUE, deleted |-> FALSE, roles |-> {"admin"}]
    ELSE [id |-> i, username |-> "user" \o ToString(i),
          email |-> "user" \o ToString(i) \o "@gauth.local",
          password |-> GenerateFromPassword("secret1"),
          isActive |-> TRUE, deleted |-> FALSE, roles |-> {}]

InitPages ==
    /\ \E n \in 1..MaxRows, d \in {0, 1} :
        /\ d < n
        /\ users = [i \in 1..n |-> [UserRow(i) EXCEPT !.deleted = (i > n - d)]]
    /\ sessions = ("s1" :> [userID |-> 1, token |-> "s1",
                            expiresAt |-> RefreshExp, isActive |-> TRUE])
    /\ now = 0
    /\ loggedOut = {}
    /\ last = Record("Init", NoToken, 0, "", NoCtx)
    /\ auditLogs = <<>>
    /\ auditWrites = <<>>
    /\ inflight = {}
    /\ InitLimit
    /\ InitAuthProvider

\* the paginated listing, on stores of every size
NextPages ==
    \/ GetUsersPage

SpecPages == InitPages /\ [][NextPages]_vars

\* the gates and the recovery function, each applied to any request
NextMiddleware ==
    \/ RoleGate
    \/ PermissionGate
    \/ Panic

SpecMiddleware == Init /\ [][NextMiddleware]_vars

\* a user reading the own profile between logins, password changes and
\* updates of the row
NextProfile ==
    \/ Login
    \/ Me
    \/ ChangePassword
    \/ UpdateUser

SpecProfile == Init /\ [][NextProfile]_vars

\* the seeded store with the administrator logged in
InitRaces ==
    /\ LET id == Min(UserIds) IN
        /\ users = (id :> [id |-> id, username |-> "admin", email |-> "admin@gauth.local",
                           password |-> GenerateFromPassword("password"),
                           isActive |-> TRUE, deleted |-> FALSE, roles |-> {"admin"}])
        /\ sessions = ("s1" :> [userID |-> id, token |-> "s1",
                                expiresAt |-> RefreshExp, isActive |-> TRUE])
    /\ now = 0
    /\ loggedOut = {}
    /\ last = Record("Init", NoToken, 0, "", NoCtx)
    /\ auditLogs = <<>>
    /\ auditWrites = <<>>
    /\ inflight = {}
    /\ InitLimit
    /\ InitAuthProvider

\* password changes next to logins and updates of the same user, store call
\* by store call
NextPassword ==
    \/ ChangePassword
    \/ LoginCreate
    \/ LoginSave
    \/ UpdateUserRead
    \/ UpdateUserSave

SpecPassword == InitRaces /\ [][NextPassword]_vars

\* the frontend next to an idle backend: localStorage holds what an earlier
\* visit left, any of the two tokens or none
StoredAccess == {Null, "a0"}
StoredRefresh == {Null, "r0"}
InitProvider ==
    /\ LET id == Min(UserIds) IN
        users = (id :> [id |-> id, username |-> "admin", email |-> "admin@gauth.local",
                        password |-> GenerateFromPassword("password"),
                        isActive |-> TRUE, deleted |-> FALSE, roles |-> {"admin"}])
    /\ sessions = EmptyMap
    /\ now = 0
    /\ loggedOut = {}
    /\ last = Record("Init", NoToken, 0, "", NoCtx)
    /\ auditLogs = <<>>
    /\ auditWrites = <<>>
    /\ inflight = {}
    /\ InitLimit
    /\ \E access \in StoredAccess, refresh \in StoredRefresh :
           authProvider = ProviderState(access, refresh)

NextProvider ==
    \/ InitAuthStart
    \/ MeAnswer
    \/ RefreshAnswer
    \/ ProviderLogin
    \/ ProviderLoginAnswer
    \/ ProviderLogout
    \/ ProviderLogoutAnswer

SpecProvider == InitProvider /\ [][NextProvider]_vars

\* React runs the effect after the first render, and the browser settles
\* every fetch; nothing makes a user log in or out
FairProvider ==
    /\ WF_vars(InitAuthStart)
    /\ WF_vars(MeAnswer)
    /\ WF_vars(RefreshAnswer)
    /\ WF_vars(ProviderLoginAnswer)
    /\ WF_vars(ProviderLogoutAnswer)

SpecProviderFair == SpecProvider /\ FairProvider

\* requests through RateLimit, one at a time
NextRateLimit ==
    \/ RateLimit
    \/ TickSecond

SpecRateLimit == Init /\ [][NextRateLimit]_vars

\* requests through RateLimit at once
NextLimitRaces ==
    \/ LimitEnter
    \/ LimitClean
    \/ LimitCheck
    \/ LimitAppend
    \/ MapFault
    \/ TickSecond

SpecLimitRaces == Init /\ [][NextLimitRaces]_vars

\* a models.Role as it is constructed: the Permissions column empty
InitRoles ==
    /\ users = EmptyMap
    /\ sessions = EmptyMap
    /\ now = 0
    /\ loggedOut = {}
    /\ last = RoleRecord("Role", [Name |-> "auditor", Permissions |-> <<>>],
                         FALSE, NilSlice, NilSlice)
    /\ auditLogs = <<>>
    /\ auditWrites = <<>>
    /\ inflight = {}
    /\ InitLimit
    /\ InitAuthProvider

\* the calls on a role
NextRoles ==
    \/ SetPermissionsCall
    \/ GetPermissionsCall

SpecRoles == InitRoles /\ [][NextRoles]_vars

\* concurrent requests of the administrator on the users table
NextRaces ==
    \/ CreateUserCheck
    \/ CreateUserInsert
    \/ UpdateUserRead
    \/ UpdateUserSave

SpecRaces == InitRaces /\ [][NextRaces]_vars

\* logins whose tokens may collide, with logouts and the clock
NextSessions ==
    \/ LoginAnyToken
    \/ Logout
    \/ Tick

SpecSessions == Init /\ [][NextSessions]_vars

\* logins and logouts of the administrator and of the users it creates
NextLogout ==
    \/ Login
    \/ Logout
    \/ CreateUser

SpecLogout == Init /\ [][NextLogout]_vars

\* requests through AuditMiddleware and the writes they launch
NextAudit ==
    \/ Audited
    \/ AuditWrite

SpecAudit == Init /\ [][NextAudit]_vars

\* the same with the sending of the response as a step of its own
NextAuditOrder ==
    \/ AuditReturn
    \/ AuditRespond
    \/ AuditCreateAny

SpecAuditOrder == Init /\ [][NextAuditOrder]_vars

\* ======================================================================
\* Properties
\* ======================================================================
\* the conditions of section 4.2, stated on the header and the store
HasBearer(h) == Len(h) = 2 /\ h[1] = "Bearer "
Verifies(t) ==
    /\ t \notin {Malformed, NoToken}
    /\ t.alg \in HMACFamily
    /\ t.sig = JWTSecret
    /\ ("exp" \in DOMAIN t.claims => now < t.claims.exp)
HasClaims(t) == {"user_id", "session_token"} \subseteq DOMAIN t.claims
ActiveSessions(t) ==
    {k \in DOMAIN sessions :
        /\ k = t.claims.session_token
        /\ UUIDString(sessions[k].userID) = t.claims.user_id
        /\ sessions[k].isActive}
Bearer(t) == <<"Bearer ", t>>
SessionClaim(t) == IF "session_token" \in DOMAIN t.claims THEN t.claims.session_token ELSE Absent

\* C1: once Logout has succeeded for a session, every token that names that
\* session is rejected with 401 by AuthMiddleware and by RefreshToken, in
\* every later state, whether or not the token's exp has passed.
C1_LoggedOutRejected ==
    \A t \in Tokens :
        SessionClaim(t) \in loggedOut =>
            /\ ~AuthMiddleware(Bearer(t)).pass
            /\ AuthMiddleware(Bearer(t)).status = 401
            /\ RefreshTokenResp(t).resp.status = 401

\* a request with an unexpired, well-signed token of a logged-out, unexpired
\* session has just been answered "Invalid session"
C1_Witness ==
    /\ last.op = "Me"
    /\ last.status = 401
    /\ last.error = "Invalid session"
    /\ last.st \in loggedOut
    /\ ~IsExpired(sessions[last.st])

\* the users a login name denotes
Matches(ident) ==
    {id \in DOMAIN users :
        ~users[id].deleted /\ (users[id].username = ident \/ users[id].email = ident)}
PasswordMatches(id, pw) == users[id].password = GenerateFromPassword(pw)
LoginAnswer(ident, pw) == LoginResp(ident, pw, NewToken).resp

\* C2: Login answers 200 with both tokens exactly when some user with that
\* username or email exists, is active and has that password; every other
\* login is answered 401 without tokens.
C2_LoginIffCredentials ==
    \A ident \in Idents, pw \in Passwords :
        LET r == LoginAnswer(ident, pw) IN
        /\ (r.status = 200 /\ r.access_token # NoToken /\ r.refresh_token # NoToken)
             <=> (\E id \in Matches(ident) : users[id].isActive /\ PasswordMatches(id, pw))
        /\ r.status # 200 =>
             r.status = 401 /\ r.access_token = NoToken /\ r.refresh_token = NoToken

\* C3: the response to a login name that denotes no user equals the response
\* to a login name that denotes active users only, with a password none of
\* them has.
C3_UnknownUserAsWrongPassword ==
    \A i1 \in Idents, i2 \in Idents, p1 \in Passwords, p2 \in Passwords :
        (/\ Matches(i1) = {}
         /\ Matches(i2) # {}
         /\ \A id \in Matches(i2) : users[id].isActive /\ ~PasswordMatches(id, p2))
        => LoginAnswer(i1, p1) = LoginAnswer(i2, p2)

\* a login with a wrong password for an active user has just been refused,
\* while some login name denotes no user
C3_Witness ==
    /\ last.op = "Login"
    /\ last.status = 401
    /\ last.error = "Invalid credentials"
    /\ last.user \in DOMAIN users
    /\ users[last.user].isActive
    /\ ~users[last.user].deleted
    /\ \E i \in Idents : Matches(i) = {}

\* C4 as claimed: the response to a login for an inactive account equals the
\* response to a login with a wrong password.
C4_DisabledAsWrongPassword ==
    \A i1 \in Idents, i2 \in Idents, p1 \in Passwords, p2 \in Passwords :
        (/\ Matches(i1) # {}
         /\ \A id \in Matches(i1) : ~users[id].isActive
         /\ Matches(i2) # {}
         /\ \A id \in Matches(i2) : users[id].isActive /\ ~PasswordMatches(id, p2))
        => LoginAnswer(i1, p1) = LoginAnswer(i2, p2)

\* C4 amended: both logins are answered 401 without tokens, a wrong password
\* with "Invalid credentials" and an inactive account, whatever the password,
\* with "Account is disabled".
C4_DisabledHasOwnMessage ==
    \A ident \in Idents, pw \in Passwords :
        LET r == LoginAnswer(ident, pw) IN
        /\ (Matches(ident) # {} /\ \A id \in Matches(ident) : ~users[id].isActive)
             => r = LoginResponse(401, "Account is disabled", NoToken, NoToken)
        /\ (/\ Matches(ident) # {}
            /\ \A id \in Matches(ident) : users[id].isActive /\ ~PasswordMatches(id, pw))
             => r = LoginResponse(401, "Invalid credentials", NoToken, NoToken)

\* a login for an inactive account has just been refused
C4_Witness ==
    /\ last.op = "Login"
    /\ last.status = 401
    /\ last.error = "Account is disabled"
    /\ last.user \in DOMAIN users
    /\ ~users[last.user].isActive

\* C5: AuthMiddleware passes a request exactly when the header carries a
\* Bearer token that jwt.Parse accepts under the secret, with both claims,
\* naming an active session of that user whose ExpiresAt has not passed; the
\* context then holds that session row and the user row that owns it; every
\* other request is aborted with 401.
C5_AuthMiddlewareIff ==
    \A h \in Headers :
        LET mw == AuthMiddleware(h)
            ok == /\ HasBearer(h) /\ Verifies(h[2]) /\ HasClaims(h[2])
                  /\ \E k \in ActiveSessions(h[2]) : ~(now > sessions[k].expiresAt) IN
        /\ mw.pass <=> ok
        /\ ~mw.pass => mw.status = 401
        /\ mw.pass =>
             LET k == h[2].claims.session_token IN
             /\ mw.session.token = k
             /\ mw.session.userID = sessions[k].userID
             /\ mw.session.expiresAt = sessions[k].expiresAt
             /\ mw.session.isActive = sessions[k].isActive
             /\ mw.user = users[sessions[k].userID]

\* C6: a token whose algorithm is outside the HMAC family is answered 401 by
\* AuthMiddleware and by RefreshToken, whatever its signature and claims.
C6_NonHMACRejected ==
    \A t \in Tokens :
        t.alg \notin HMACFamily =>
            /\ ~AuthMiddleware(Bearer(t)).pass
            /\ AuthMiddleware(Bearer(t)).status = 401
            /\ RefreshTokenResp(t).resp.status = 401

\* a token with algorithm "none" that names an active, unexpired session has
\* just been refused
C6_Witness ==
    /\ last.op \in {"Me", "RefreshToken"}
    /\ last.alg = "none"
    /\ last.status = 401
    /\ last.st \in DOMAIN sessions
    /\ sessions[last.st].isActive
    /\ ~IsExpired(sessions[last.st])

\* C7 as claimed: every rejected request gets the same response (status and
\* body) as the request without an Authorization header.
C7_FailuresIndistinguishable ==
    \A h \in Headers :
        LET mw == AuthMiddleware(h) IN
        ~mw.pass => /\ mw.status = AuthMiddleware(<<>>).status
                    /\ mw.error = AuthMiddleware(<<>>).error

\* the first step of section 4.2 a header fails at
FailedStep(h) ==
    IF h = <<>> THEN "header"
    ELSE IF ~HasBearer(h) THEN "bearer"
    ELSE IF ~Verifies(h[2]) THEN "token"
    ELSE IF "user_id" \notin DOMAIN h[2].claims THEN "user_id"
    ELSE IF "session_token" \notin DOMAIN h[2].claims THEN "session_token"
    ELSE IF ActiveSessions(h[2]) = {} THEN "session"
    ELSE "expiry"
StepMessage ==
    [header |-> "Authorization header is required",
     bearer |-> "Bearer token is required",
     token |-> "Invalid token",
     user_id |-> "Invalid user ID in token",
     session_token |-> "Invalid session token in claims",
     session |-> "Invalid session",
     expiry |-> "Session expired"]

\* C7 amended: every rejected request is answered 401, and the error message
\* names the step that failed.
C7_FailuresNameTheStep ==
    \A h \in Headers :
        LET mw == AuthMiddleware(h) IN
        ~mw.pass => mw.status = 401 /\ mw.error = StepMessage[FailedStep(h)]

\* a request has just been refused with a message other than the one for a
\* missing header
C7_Witness ==
    /\ last.op = "Me"
    /\ last.status = 401
    /\ last.error = "Session expired"

\* C8: a successful refresh returns an access token with the user_id and
\* session_token claims of the presented token, and the presented token
\* itself as refresh_token.
C8_RefreshSameSession ==
    \A t \in Tokens :
        LET r == RefreshTokenResp(t).resp IN
        r.status = 200 =>
            /\ r.access_token.claims.user_id = t.claims.user_id
            /\ r.access_token.claims.session_token = t.claims.session_token
            /\ r.refresh_token = t

\* C9: a RefreshToken request, accepted or refused, leaves the sessions table
\* as it was.
C9_RefreshKeepsSessions == [][last'.op = "RefreshToken" => sessions' = sessions]_vars

\* a refresh has just succeeded on a store that holds sessions
C9_Witness ==
    /\ last.op = "RefreshToken"
    /\ last.status = 200
    /\ DOMAIN sessions # {}

\* C10: RefreshToken accepts a token string exactly when AuthMiddleware
\* passes the request that bears it.
C10_RefreshAsMiddleware ==
    \A t \in Tokens \cup {Malformed} :
        (RefreshTokenResp(t).resp.status = 200) <=> AuthMiddleware(Bearer(t)).pass

\* a refresh has just been refused for a token that lacks a claim or names
\* no active session, and the middleware refuses the same tokens
C10_Witness ==
    /\ last.op = "RefreshToken"
    /\ last.status = 401
    /\ last.error = "Invalid session"
    /\ last.alg \in HMACFamily
    /\ \E t \in Tokens : /\ "user_id" \notin DOMAIN t.claims
                         /\ SessionClaim(t) \in DOMAIN sessions
                         /\ Verifies(t)
                         /\ RefreshTokenResp(t).resp.error = "Invalid session"
                         /\ AuthMiddleware(Bearer(t)).error = "Invalid user ID in token"

\* C11: RequireRole(r) fails closed: the request goes on only if the context
\* holds an identity one of whose roles is named exactly r; with no identity
\* in the context it is aborted with 401, with an identity that lacks the
\* role it is aborted with 403.
C11_RequireRoleFailsClosed ==
    last.op = "RequireRole" =>
        LET identified == "user" \in DOMAIN last.ctx
            named == /\ identified
                     /\ \E i \in DOMAIN last.ctx.user.Roles :
                            last.ctx.user.Roles[i].Name = last.required
        IN /\ last.pass <=> named
           /\ ~identified => ~last.pass /\ last.status = 401
           /\ identified /\ ~named => ~last.pass /\ last.status = 403

C11_Witness ==
    /\ last.op = "RequireRole"
    /\ "user" \notin DOMAIN last.ctx
    /\ last.status = 401
    /\ ~last.pass

\* C12: RequirePermission(p) lets the request through exactly when p is an
\* element of the stored permission list of one of the roles of the identity
\* in the context; an identity with no roles, or whose roles hold no
\* permission, is answered 403.
ListsPermission(text, p) ==
    /\ Len(text) >= 2
    /\ text[1] = "["
    /\ text[Len(text)] = "]"
    /\ \E k \in 2..(Len(text) - 1) : text[k] = p

C12_RequirePermissionIff ==
    last.op = "RequirePermission" /\ "user" \in DOMAIN last.ctx =>
        LET Roles == last.ctx.user.Roles
            granted == \E i \in DOMAIN Roles :
                          ListsPermission(Roles[i].Permissions, last.required)
        IN /\ last.pass <=> granted
           /\ ~granted => last.status = 403

C12_Witness ==
    /\ last.op = "RequirePermission"
    /\ last.pass
    /\ Len(last.ctx.user.Roles) = 2
    /\ ~ListsPermission(last.ctx.user.Roles[1].Permissions, last.required)

\* C19: a panic is turned into a generic 500: the response body does not
\* depend on the panic value.
C19_RecoveryGeneric ==
    last.op = "Recovery" =>
        /\ last.status = 500
        /\ \A v \in PanicValues : Recovery(v).body = last.body

\* C18: with N live users, page p and limit l (p < 1 counts as 1; l < 1 or
\* l > 100 counts as 10), GetUsers answers with exactly
\* min(l, max(0, N - (p-1)*l)) users and total_pages = ceil(N / l).
C18_Pagination ==
    last.op = "GetUsers" /\ last.status = 200 =>
        LET N == Cardinality(LiveUsers)
            p == IF last.page < 1 THEN 1 ELSE last.page
            l == IF last.limit < 1 \/ last.limit > 100 THEN 10 ELSE last.limit
            rest == IF N - (p - 1) * l < 0 THEN 0 ELSE N - (p - 1) * l
        IN /\ last.count = (IF l < rest THEN l ELSE rest)
           /\ last.total_pages * l >= N
           /\ (last.total_pages - 1) * l < N

\* C13: no user-CRUD handler runs, and no user row changes, unless in the same
\* request AuthMiddleware succeeded (the bearer token names an active,
\* unexpired session) and then RequireRole("admin") succeeded (the session's
\* owner holds the admin role).
UserRoutes == {"GetUsers", "CreateUser", "GetUser", "UpdateUser", "DeleteUser"}
AdminSession(st) ==
    /\ st \in DOMAIN sessions
    /\ sessions[st].isActive
    /\ ~IsExpired(sessions[st])
    /\ sessions[st].userID \in LiveUsers
    /\ "admin" \in users[sessions[st].userID].roles

C13_UserRoutesBehindGates ==
    [][/\ (last'.op \in UserRoutes /\ last'.status \notin {401, 403}) => AdminSession(last'.st)
       /\ users' # users => last'.op \in UserRoutes /\ AdminSession(last'.st)]_vars

C13_Witness ==
    /\ last.op = "CreateUser"
    /\ last.status = 201
    /\ AdminSession(last.st)

\* C14: every request the backend serves is recorded: when the handler chain
\* of a request has finished, exactly one audit write has been launched,
\* carrying the status of the request.
ServedOps == {"Login", "RefreshToken", "Me", "Logout", "DeleteUser"}
C14_EveryRequestAudited ==
    [][last'.op \in ServedOps =>
          /\ Len(auditWrites') = Len(auditWrites) + 1
          /\ auditWrites'[Len(auditWrites')].status_code = last'.status]_vars

\* C15: an audit write never blocks or fails its request: the request is
\* answered with the status its handlers wrote and no row is written before
\* the middleware returns; a write that finishes, with or without success,
\* leaves the response and every other table as they are, and a failed
\* write leaves the audit table as it is too.
C15_AuditNeverBlocks ==
    [][/\ last' # last =>
            /\ last'.status = last'.handler
            /\ auditLogs' = auditLogs
       /\ Len(auditWrites') < Len(auditWrites) =>
            /\ last' = last
            /\ users' = users /\ sessions' = sessions
            /\ \/ auditLogs' = auditLogs
               \/ \E i \in DOMAIN auditWrites : auditLogs' = Append(auditLogs, auditWrites[i])]_vars

C15_Witness ==
    /\ last.op = "Audit"
    /\ last.status = 200
    /\ auditWrites = <<>>
    /\ auditLogs = <<>>

\* C16: a successful Login creates exactly one new session row: active,
\* owned by the authenticated user, under a token no existing session holds,
\* expiring at now plus the refresh duration; every existing row is left as
\* it was, so the tokens of the sessions stay pairwise distinct.
C16_LoginCreatesOneSession ==
    [][(last'.op = "Login" /\ last'.status = 200 /\ now' = now) =>
          \E t \in DOMAIN sessions' \ DOMAIN sessions :
              /\ DOMAIN sessions' = DOMAIN sessions \cup {t}
              /\ \A s \in DOMAIN sessions : sessions'[s] = sessions[s]
              /\ sessions'[t] = [userID |-> last'.user, token |-> t,
                                 expiresAt |-> now + RefreshExp, isActive |-> TRUE]
              /\ \A s1, s2 \in DOMAIN sessions' :
                     sessions'[s1].token = sessions'[s2].token => s1 = s2]_vars

\* a second login, later than the first, whose row stands untouched
C16_Witness ==
    /\ last.op = "Login"
    /\ last.status = 200
    /\ \E s1, s2 \in DOMAIN sessions :
           /\ sessions[s1].expiresAt = now + RefreshExp
           /\ sessions[s2].expiresAt < now + RefreshExp
           /\ ~sessions[s2].isActive

\* C17: the body GET /api/auth/me answers with never holds the password:
\* it has no password key, and none of its texts is the password hash of a
\* user row, whatever logins, password changes and updates came before.
C17_MeHidesPassword ==
    (last.op = "Me" /\ last.status = 200) =>
        /\ "password" \notin DOMAIN last.body
        /\ \A k \in DOMAIN last.body \cap {"username", "email"} :
               \A id \in DOMAIN users : last.body[k] # users[id].password

\* the profile is read after a password change and an update of the row
C17_Witness ==
    /\ last.op = "Me"
    /\ last.status = 200
    /\ last.body.username = "bob"
    /\ users[last.user].password = GenerateFromPassword("secret1")

\* C20: usernames and emails are unique among the users whatever the
\* interleaving of CreateUser and UpdateUser, and a request that reaches its
\* write while another user holds its username or email is refused with
\* 409 and leaves every user row as it was.
HeldByAnother(id, username, email) ==
    \E o \in LiveUsers \ {id} : users[o].username = username \/ users[o].email = email
C20_UniqueOr409 ==
    [][/\ \A a, b \in LiveUsers' :
             a # b => /\ users'[a].username # users'[b].username
                      /\ users'[a].email # users'[b].email
       /\ \A req \in inflight \ inflight' :
             LET held == IF req.op = "CreateUser"
                         THEN HeldByAnother(NilUUID, req.username, req.email)
                         ELSE HeldByAnother(req.userID, req.saved.username, req.saved.email) IN
             held => (last'.status = 409 /\ users' = users)]_vars

\* C21: after SetPermissions(p) the stored text is a valid list, not null,
\* that decodes to p (to the empty list for a nil p), GetPermissions returns
\* p, and GetPermissions never returns nil, also on a role on which
\* SetPermissions was never called.
SameList(a, b) == a.elems = b.elems
C21_PermissionsRoundTrip ==
    /\ last.op = "SetPermissions" =>
          /\ jsonValid(last.role.Permissions)
          /\ last.role.Permissions # <<"null">>
          /\ SameList(jsonUnmarshal(last.role.Permissions, NilSlice), last.permissions)
    /\ last.op = "GetPermissions" =>
          /\ ~last.result.nil
          /\ last.set => SameList(last.result, last.permissions)

\* C21 amended: the same, the list read back being p with every string
\* coerced to valid UTF-8 (p itself when all its strings are valid UTF-8).
Coerced(slice) == [i \in DOMAIN slice.elems |-> ToValidUTF8(slice.elems[i])]
C21_PermissionsRoundTripUTF8 ==
    /\ last.op = "SetPermissions" =>
          /\ jsonValid(last.role.Permissions)
          /\ last.role.Permissions # <<"null">>
          /\ jsonUnmarshal(last.role.Permissions, NilSlice).elems = Coerced(last.permissions)
    /\ last.op = "GetPermissions" =>
          /\ ~last.result.nil
          /\ last.set => last.result.elems = Coerced(last.permissions)
          /\ (last.set /\ \A i \in DOMAIN last.permissions.elems :
                              last.permissions.elems[i] \notin InvalidUTF8)
                 => SameList(last.result, last.permissions)

\* the permissions are read back after SetPermissions(nil)
C21_Witness ==
    /\ last.op = "GetPermissions"
    /\ last.set
    /\ last.permissions.nil
    /\ last.result = Slice(<<>>)

\* C22: the type claim separates the two uses of a token: RefreshToken
\* answers 200 only to a token of type "refresh", and AuthMiddleware passes
\* only a request whose bearer token has type "access".
C22_TypeSeparatesUses ==
    \A t \in Tokens :
        /\ t.claims.type # "refresh" => RefreshTokenResp(t).resp.status # 200
        /\ t.claims.type # "access" => ~AuthMiddleware(Bearer(t)).pass

\* C23: with requests passing through RateLimit one at a time, a request is
\* answered 429 exactly when RateLimitMax requests of its IP were let
\* through in the minute up to now (older ones no longer count); a rejected
\* request is not added to the history of its client; and no window of one
\* minute holds more than RateLimitMax requests of an IP that were let through.
Recent(times, t) == Cardinality({i \in DOMAIN times : t - times[i] <= Minute})
InWindow(times, t) == Cardinality({i \in DOMAIN times : t <= times[i] /\ times[i] <= t + Minute})
C23_RateLimitWindow ==
    [][(last'.op = "RateLimit" /\ now' = now) =>
          LET ip == last'.ip IN
          /\ (last'.status = 429) <=> (Recent(admitted[ip], now) >= RateLimitMax)
          /\ last'.status = 429 =>
                /\ admitted' = admitted
                /\ Len(MapGet(clients', ip)) <= Len(MapGet(clients, ip))
                /\ \A i \in DOMAIN MapGet(clients', ip) : MapGet(clients', ip)[i] # now \/
                       \E j \in DOMAIN admitted[ip] : admitted[ip][j] = now
          /\ last'.status # 429 => admitted'[ip] = Append(admitted[ip], now)
          /\ \A c \in IPs, t \in 0..MaxClock : InWindow(admitted'[c], t) <= RateLimitMax]_vars

\* a request is let through again once the requests that filled the limit
\* are older than one minute
C23_Witness ==
    /\ last.op = "RateLimit"
    /\ last.status = 200
    /\ Len(admitted[last.ip]) > RateLimitMax
    /\ Recent(admitted[last.ip], now) = 1

\* C24: RateLimit shares its map without synchronization.  Only requests of
\* one IP that are inside RateLimit at once can lose an entry or be let
\* through beyond the limit: an IP whose requests never overlapped keeps
\* every recent entry and stays within RateLimitMax in every window of one
\* minute.  (That overlapping requests do lose an entry and exceed the limit
\* is the reachable state C24_Witness.)
Count(times, t) == Cardinality({i \in DOMAIN times : times[i] = t})
Overshoot(ip) == \E t \in 0..MaxClock : InWindow(admitted[ip], t) > RateLimitMax
LostEntry(ip) ==
    \E t \in 0..MaxClock :
        /\ now - t <= Minute
        /\ Count(MapGet(clients, ip), t) < Count(admitted[ip], t)
C24_OnlyRacesBreakTheLimit ==
    \A ip \in IPs : (Overshoot(ip) \/ LostEntry(ip)) => ip \in raced

\* two requests of one IP interleaved: an entry of the history is gone and
\* more than RateLimitMax requests were let through within one minute
C24_Witness ==
    \E ip \in IPs :
        /\ limiting = {}
        /\ ~Crashed
        /\ LostEntry(ip)
        /\ Overshoot(ip)

\* C25: audit writes are detached from their requests.  When the middleware
\* of a request returns, one write is added to the pending ones, however
\* many are pending, and no row is written yet; sending a response neither
\* waits for a write nor writes; a goroutine that runs removes its own write
\* alone, whichever place it has among the pending ones, inserts at most its
\* own row and touches no response.
Without(seq, i) == SubSeq(seq, 1, i - 1) \o SubSeq(seq, i + 1, Len(seq))
C25_AuditWritesDetached ==
    [][/\ now' # now =>
            /\ Len(auditWrites') = Len(auditWrites) + 1
            /\ SubSeq(auditWrites', 1, Len(auditWrites)) = auditWrites
            /\ auditWrites'[Len(auditWrites')].n = now'
            /\ auditLogs' = auditLogs
            /\ last' = last
       /\ Cardinality(inflight') < Cardinality(inflight) =>
            /\ auditLogs' = auditLogs
            /\ auditWrites' = auditWrites
       /\ Len(auditWrites') < Len(auditWrites) =>
            /\ inflight' = inflight
            /\ last' = last
            /\ \E i \in DOMAIN auditWrites :
                  /\ auditWrites' = Without(auditWrites, i)
                  /\ \/ auditLogs' = auditLogs
                     \/ auditLogs' = Append(auditLogs, auditWrites[i])]_vars

\* the row of the second request is in the table before the row of the
\* first; the second request has its row before its response is sent, the
\* first got its row after; and a third write is still pending
C25_Witness ==
    /\ Len(auditLogs) = 2
    /\ auditLogs[1].n = 2
    /\ auditLogs[2].n = 1
    /\ \E r \in inflight : r.n = 2
    /\ \A r \in inflight : r.n # 1
    /\ last.op = "Audit"
    /\ last.n = 1
    /\ auditWrites # <<>>

\* C26: a password change is durable under concurrency: the db.Save that
\* ends a Login or an UpdateUser never changes the stored password hash of a
\* user, so a hash that ChangePassword stored is not replaced by the one a
\* concurrent request loaded before the change.
SaveStep ==
    /\ Cardinality(inflight') < Cardinality(inflight)
    /\ last'.op \in {"Login", "UpdateUser"}
C26_PasswordChangeDurable ==
    [][SaveStep => \A id \in DOMAIN users : users'[id].password = users[id].password]_vars

\* C27: a request is authenticated as a user only while that user exists
\* and is active: for every active, unexpired session whose owner is
\* deactivated or soft-deleted, a request bearing a token just issued for it
\* is aborted with 401 by AuthMiddleware, and a refresh with its refresh
\* token is answered 401.
OwnerGone(t) ==
    \/ sessions[t].userID \notin LiveUsers
    \/ ~users[sessions[t].userID].isActive
C27_OnlyLiveActiveUsers ==
    \A t \in DOMAIN sessions :
        (sessions[t].isActive /\ ~IsExpired(sessions[t]) /\ OwnerGone(t)) =>
            /\ ~AuthMiddleware(<<"Bearer ", generateAccessToken(sessions[t].userID, t)>>).pass
            /\ RefreshTokenResp(generateRefreshToken(sessions[t].userID, t)).resp.status = 401

\* Login of user id with this password is answered 200, under a name that
\* resolves to the user
LoginSucceeds(id, password) ==
    \E username \in Idents :
        /\ LoginQuery(username) # {}
        /\ Min(LoginQuery(username)) = id
        /\ LoginResp(username, password, NewToken).resp.status = 200
ChangePasswordStep ==
    /\ last'.op = "ChangePassword"
    /\ last'.error \in {"Password changed successfully", "Current password is incorrect"}
    /\ <<users, last>>' # <<users, last>>

\* C28 as stated: after a successful ChangePassword, Login with the old
\* password fails and Login with the new password succeeds; a wrong current
\* password is answered 401 and leaves the stored hash; the sessions are
\* left unchanged in both cases.
C28_ChangePasswordReplaces ==
    [][ChangePasswordStep =>
          \A id \in {i \in DOMAIN users \cup {NilUUID} : i = last'.user} :
          /\ sessions' = sessions
          /\ last'.status = 401 => users' = users
          /\ last'.status = 200 =>
                \E new \in Passwords :
                    /\ LoginSucceeds(id, new)'
                    /\ \A old \in Passwords :
                          CompareHashAndPassword(users[id].password, old) =>
                              ~LoginSucceeds(id, old)']_vars

\* C28, amended: a successful ChangePassword changes nothing but the
\* password hash of the requesting user, which becomes the hash of the new
\* password: afterwards Login of that user succeeds with the new password
\* and no other if the account is active, and with no password if it is
\* not; the old password keeps working exactly when the new one equals it.
\* A wrong current password is answered 401 and leaves the users table.
\* The sessions are left unchanged in both cases.
C28_ChangePasswordSetsHash ==
    [][ChangePasswordStep =>
          \A id \in {i \in DOMAIN users \cup {NilUUID} : i = last'.user} :
          /\ sessions' = sessions
          /\ last'.status \in {200, 401}
          /\ last'.status = 401 => users' = users
          /\ last'.status = 200 =>
                \E new \in Passwords :
                    /\ users' = [users EXCEPT ![id].password = GenerateFromPassword(new)]
                    /\ \A password \in Passwords :
                          LoginSucceeds(id, password)' <=>
                              (users[id].isActive /\ password = new)]_vars

\* a password change went through: the stored hash is no longer the seeded
\* one, the old password is refused and the session used is still active
C28_Witness ==
    /\ last.op = "ChangePassword"
    /\ last.status = 200
    /\ last.user \in DOMAIN users
    /\ users[last.user].password = GenerateFromPassword("secret1")
    /\ ~LoginSucceeds(last.user, "password")
    /\ LoginSucceeds(last.user, "secret1")
    /\ \E t \in DOMAIN sessions : sessions[t].userID = last.user /\ sessions[t].isActive

\* a request with the access token of session t passes AuthMiddleware
Authenticated(t) ==
    /\ t \in DOMAIN sessions
    /\ AuthMiddleware(<<"Bearer ", generateAccessToken(sessions[t].userID, t)>>).pass

\* C29: a Logout answered 200 changes only the session of the presented
\* token: that row was active and becomes inactive, with its owner, token and
\* expiry as before; no row is added or removed, every other session row
\* and every user row stay as they were, and every other session that
\* authenticated requests before the logout still does.
C29_LogoutOnlyItsSession ==
    [][(last'.op = "Logout" /\ last'.status = 200 /\ now' = now) =>
          \E k \in DOMAIN sessions :
              /\ k = last'.st
              /\ sessions[k].isActive
              /\ sessions' = [sessions EXCEPT ![k].isActive = FALSE]
              /\ users' = users
              /\ ~Authenticated(k)'
              /\ \A t \in SessionTokens \ {k} : Authenticated(t)' = Authenticated(t)]_vars

\* one of two sessions of a user was logged out and the other one still
\* authenticates
C29_Witness ==
    /\ last.op = "Logout"
    /\ last.status = 200
    /\ ~Authenticated(last.st)
    /\ \E t \in DOMAIN sessions :
           /\ t # last.st
           /\ sessions[t].userID = sessions[last.st].userID
           /\ Authenticated(t)

\* C30: the start-up check of AuthProvider always finishes: whatever the
\* fetches of /api/auth/me and /api/auth/refresh come to, and with or
\* without a stored refresh token, loading becomes false at some time; and
\* when the refresh fails, both stored tokens are removed and user is null.
RefreshFails ==
    /\ authProvider.initAuth \in {"me", "refresh"}
    /\ authProvider'.initAuth = "rejected"
C30_StartupCheckFinishes ==
    /\ <>(~authProvider.loading)
    /\ [][RefreshFails =>
             /\ authProvider'.access_token = Null
             /\ authProvider'.refresh_token = Null
             /\ authProvider'.user = Null]_vars
====
